---- MODULE Spec2Model ----
(***************************************************************************)
(* Model of the story-curator core: sentence tagging and extraction        *)
(* (src/src/utils/text_processor.py), span normalisation and grouping,     *)
(* evidence assembly, the concurrent per-category merge of                 *)
(* ContentFlagger.flag_story (src/src/flagging/content_flagger.py),        *)
(* SkillTagger.tag_story (src/src/tagging/skill_tagger.py) and the         *)
(* highlighting of both (src/src/utils/highlighting_utils.py).             *)
(*                                                                         *)
(* Texts are sequences of tokens.  A token is a record [k, n]: a word      *)
(* character, a full stop, a space, a line break, or the text of a marker  *)
(* "<tagN>" / "</tagN>".  A marker is one token, so "text that looks like  *)
(* a marker" is a text that holds an open or close token.                  *)
(***************************************************************************)
EXTENDS Integers, Sequences, FiniteSets, TLC

VARIABLES
    fn,             \* the operation that produced ret ("start" before any)
    arg,            \* the input of the operation (flag_story: the story with its tagged_content)
    doc,            \* the story content (untagged token sequence)
    ret,            \* the value returned by the operation
    pc,             \* flag_story: position of the calling thread
    max_workers,    \* flag_story: size of the thread pool
    fut,            \* flag_story: category -> future of _check_category
    all_flags_raw,  \* flag_story: candidates collected by the as_completed loop
    collected,      \* flag_story: categories whose future the as_completed loop has taken
    grouped_flags,  \* flag_story: the grouped entries, sorted in place
    sentence_flags, \* flag_story: tag number -> entries covering that sentence
    result,         \* flag_story, tag_story: the returned dictionary (or the raised error)
    validated_tags, \* tag_story: the candidates returned by _identify_skills
    tags,           \* tag_story: the grouped entries, sorted in place
    results         \* flag_all_stories, tag_all_stories: story id -> result or error record

vars == <<fn, arg, doc, ret, pc, max_workers, fut, all_flags_raw, collected,
          grouped_flags, sentence_flags, result, validated_tags, tags, results>>

(***************************************************************************)
(* Bounds of the model.                                                    *)
(***************************************************************************)
MaxTextLen == 5     \* longest text of the text specification, in tokens
MaxSpanLen == 3     \* longest list a classifier gives as tag_numbers
MaxId == 4          \* largest integer a classifier gives as a tag number
NumCategories == 3  \* how many of the seven CATEGORIES_TO_CHECK are run
MaxCandidates == 2  \* most candidates of one story in the story specification
NumStories == 3     \* how many stories the story store holds
MaxParts == 3       \* most dash-separated parts of a skill id in the style specification

(***************************************************************************)
(* Tokens.                                                                 *)
(***************************************************************************)
W == [k |-> "w", n |-> 0]
DOT == [k |-> "dot", n |-> 0]
SP == [k |-> "sp", n |-> 0]
NL == [k |-> "nl", n |-> 0]
Open(i) == [k |-> "open", n |-> i]
Close(i) == [k |-> "close", n |-> i]

IsSpace(t) == t.k \in {"sp", "nl"}

\* str.strip(): leading and trailing white space removed
RECURSIVE LStrip(_)
LStrip(s) == IF s # <<>> /\ IsSpace(Head(s)) THEN LStrip(Tail(s)) ELSE s

RECURSIVE RStrip(_)
RStrip(s) ==
    IF s # <<>> /\ IsSpace(s[Len(s)]) THEN RStrip(SubSeq(s, 1, Len(s) - 1)) ELSE s

Strip(s) == RStrip(LStrip(s))

\* " ".join(parts)
RECURSIVE JoinSpace(_)
JoinSpace(parts) ==
    IF parts = <<>> THEN <<>>
    ELSE IF Len(parts) = 1 THEN parts[1]
    ELSE parts[1] \o <<SP>> \o JoinSpace(Tail(parts))

\* nltk.sent_tokenize, by what the pipeline relies on: a sentence ends at a
\* full stop that is followed by white space (or by the end of the text); a
\* line break alone ends nothing, and marker text is ordinary text.
RECURSIVE SentTokenizeFrom(_, _, _)
SentTokenizeFrom(text, start, i) ==
    IF start > Len(text) THEN <<>>
    ELSE IF i > Len(text) THEN <<SubSeq(text, start, Len(text))>>
    ELSE IF text[i] = DOT /\ i < Len(text) /\ IsSpace(text[i + 1])
         THEN <<SubSeq(text, start, i)>> \o SentTokenizeFrom(text, i + 1, i + 1)
    ELSE SentTokenizeFrom(text, start, i + 1)

sent_tokenize(text) == SentTokenizeFrom(text, 1, 1)

RECURSIVE StripNonEmpty(_)
StripNonEmpty(ss) ==
    IF ss = <<>> THEN <<>>
    ELSE IF Strip(Head(ss)) = <<>> THEN StripNonEmpty(Tail(ss))
    ELSE <<Strip(Head(ss))>> \o StripNonEmpty(Tail(ss))

\* TextProcessor.split_into_sentences
split_into_sentences(text) ==
    IF text = <<>> \/ Strip(text) = <<>> THEN <<>>
    ELSE StripNonEmpty(sent_tokenize(text))

\* TextProcessor.tag_sentences with a marker-detecting early return: the
\* behaviour the code does not have
tag_sentences_detecting(text) ==
    IF \E p \in 1..Len(text) : text[p].k = "open" THEN text
    ELSE LET sentences == split_into_sentences(text)
         IN JoinSpace([i \in 1..Len(sentences) |->
                          <<Open(i)>> \o sentences[i] \o <<Close(i)>>])

\* TextProcessor.tag_sentences
tag_sentences(text) ==
    LET sentences == split_into_sentences(text)
    IN JoinSpace([i \in 1..Len(sentences) |->
                     <<Open(i)>> \o sentences[i] \o <<Close(i)>>])

(***************************************************************************)
(* Tag numbers as the classifier's JSON gives them.  An element of a list  *)
(* is an integer, or a string of digits such as "2", written StrElem(2).   *)
(***************************************************************************)
StrElem(i) == 100 + i
IsStr(e) == e >= 100
\* str(e) inside the f-string of the pattern: "2" and 2 give the same text
TagOf(e) == IF IsStr(e) THEN e - 100 ELSE e

\* re.search('<tagN>(.*?)</tagN>', text): the leftmost open marker N that is
\* followed by a close marker N with no line break between them ('.' does
\* not match a line break); the group is the text up to the first such close
MatchEnd(text, p, n) ==
    IF \E q \in (p + 1)..Len(text) : text[q] = Close(n)
    THEN LET q == CHOOSE q \in (p + 1)..Len(text) :
                     /\ text[q] = Close(n)
                     /\ \A r \in (p + 1)..(q - 1) : text[r] # Close(n)
         IN IF \A r \in (p + 1)..(q - 1) : text[r] # NL THEN q ELSE 0
    ELSE 0

MatchStarts(text, n) ==
    {p \in 1..Len(text) : text[p] = Open(n) /\ MatchEnd(text, p, n) # 0}

\* TextProcessor.extract_sentence_by_tag
extract_sentence_by_tag(text, tag_number) ==
    LET n == TagOf(tag_number)
        starts == MatchStarts(text, n)
    IN IF starts = {} THEN <<>>
       ELSE LET p == CHOOSE p \in starts : \A p2 \in starts : p <= p2
            IN SubSeq(text, p + 1, MatchEnd(text, p, n) - 1)

\* TextProcessor.extract_sentences_for_tags
RECURSIVE ResolvedSentences(_, _)
ResolvedSentences(tagged_content, tag_numbers) ==
    IF tag_numbers = <<>> THEN <<>>
    ELSE LET sentence == extract_sentence_by_tag(tagged_content, Head(tag_numbers))
         IN (IF sentence # <<>> THEN <<sentence>> ELSE <<>>)
                \o ResolvedSentences(tagged_content, Tail(tag_numbers))

\* extract_sentences_for_tags without the "if sentence" test: an id that
\* does not resolve leaves an empty part in the join
extract_keeping_empty(tagged_content, tag_numbers) ==
    JoinSpace([i \in 1..Len(tag_numbers) |->
                  extract_sentence_by_tag(tagged_content, tag_numbers[i])])

extract_sentences_for_tags(tagged_content, tag_numbers) ==
    JoinSpace(ResolvedSentences(tagged_content, tag_numbers))

\* re.finditer('<tag(\d+)>(.*?)</tag\1>', text): non-overlapping matches
RECURSIVE FindIter(_, _)
FindIter(text, p) ==
    IF p > Len(text) THEN <<>>
    ELSE IF text[p].k = "open" /\ MatchEnd(text, p, text[p].n) # 0
         THEN LET q == MatchEnd(text, p, text[p].n)
              IN <<(<<text[p].n, SubSeq(text, p + 1, q - 1)>>)>> \o FindIter(text, q + 1)
    ELSE FindIter(text, p + 1)

\* TextProcessor.get_sentence_mapping
get_sentence_mapping(text) ==
    IF \E p \in 1..Len(text) : text[p].k = "open"
    THEN FindIter(text, 1)
    ELSE FindIter(tag_sentences(text), 1)

(***************************************************************************)
(* Span normalisation and grouping.  A raw tag_numbers value is            *)
(* [kind, v]: kind "int" (v = <<n>>), "list" (v the elements) or "other"   *)
(* (a string, null, an object, a float: v = <<>>).                         *)
(***************************************************************************)
RawInt(n) == [kind |-> "int", v |-> <<n>>]
RawList(s) == [kind |-> "list", v |-> s]
RawOther == [kind |-> "other", v |-> <<>>]

\* sorted(list): stable insertion into ascending order
RECURSIVE InsertSorted(_, _)
InsertSorted(x, s) ==
    IF s = <<>> THEN <<x>>
    ELSE IF x < Head(s) THEN <<x>> \o s
    ELSE <<Head(s)>> \o InsertSorted(x, Tail(s))

RECURSIVE Sorted(_)
Sorted(s) ==
    IF s = <<>> THEN <<>>
    ELSE InsertSorted(s[Len(s)], Sorted(SubSeq(s, 1, Len(s) - 1)))

\* sorted() raises TypeError when it compares a str with an int
normalize_raises(tag_numbers) ==
    /\ tag_numbers.kind = "list"
    /\ \E i, j \in 1..Len(tag_numbers.v) : IsStr(tag_numbers.v[i]) /\ ~IsStr(tag_numbers.v[j])

\* normalize_tag_numbers without the sort: a list is returned as given
normalize_unsorted(tag_numbers) ==
    IF tag_numbers.kind = "int" THEN tag_numbers.v
    ELSE IF tag_numbers.kind = "list" THEN tag_numbers.v
    ELSE <<>>

\* TextProcessor.normalize_tag_numbers
normalize_tag_numbers(tag_numbers) ==
    IF tag_numbers.kind = "int" THEN tag_numbers.v
    ELSE IF tag_numbers.kind = "list" THEN Sorted(tag_numbers.v)
    ELSE <<>>

\* current_group[-1] + 1 raises TypeError when the previous element is a str
group_raises(numbers) == \E i \in 1..(Len(numbers) - 1) : IsStr(numbers[i])

RECURSIVE GroupLoop(_, _, _, _)
GroupLoop(numbers, i, groups, current_group) ==
    IF i > Len(numbers) THEN Append(groups, current_group)
    ELSE IF numbers[i] = current_group[Len(current_group)] + 1
         THEN GroupLoop(numbers, i + 1, groups, Append(current_group, numbers[i]))
    ELSE GroupLoop(numbers, i + 1, Append(groups, current_group), <<numbers[i]>>)

\* group_consecutive_numbers extending a run on any larger id, not only on
\* the previous id plus one
RECURSIVE GroupLoopGaps(_, _, _, _)
GroupLoopGaps(numbers, i, groups, current_group) ==
    IF i > Len(numbers) THEN Append(groups, current_group)
    ELSE IF numbers[i] > current_group[Len(current_group)]
         THEN GroupLoopGaps(numbers, i + 1, groups, Append(current_group, numbers[i]))
    ELSE GroupLoopGaps(numbers, i + 1, Append(groups, current_group), <<numbers[i]>>)

group_with_gaps(numbers) ==
    IF numbers = <<>> THEN <<>>
    ELSE GroupLoopGaps(numbers, 2, <<>>, <<numbers[1]>>)

\* group_consecutive_numbers without the final append: the last run is lost
group_drop_last(numbers) ==
    IF numbers = <<>> THEN <<>>
    ELSE LET g == GroupLoop(numbers, 2, <<>>, <<numbers[1]>>)
         IN SubSeq(g, 1, Len(g) - 1)

\* TextProcessor.group_consecutive_numbers
group_consecutive_numbers(numbers) ==
    IF numbers = <<>> THEN <<>>
    ELSE GroupLoop(numbers, 2, <<>>, <<numbers[1]>>)

(***************************************************************************)
(* Classifier candidates and evidence entries.  A candidate is a JSON      *)
(* object: present is the set of keys it has, get(key, default) reads one. *)
(***************************************************************************)
\* the stored field read without looking whether the key is present
GetStored(d, key, default) == d[key]

Get(d, key, default) == IF key \in d.present THEN d[key] ELSE default

CandidateSpan(c) == Get(c, "tag_numbers", RawList(<<>>))

\* normalisation or grouping of one candidate raises
CandidateRaises(c) ==
    \/ normalize_raises(CandidateSpan(c))
    \/ group_raises(normalize_tag_numbers(CandidateSpan(c)))

CandidateGroups(c) == group_consecutive_numbers(normalize_tag_numbers(CandidateSpan(c)))

\* an entry that takes the default confidence, not the candidate's
FlagEntryDefaultConfidence(flag, group, paragraph) ==
    [issue_type |-> Get(flag, "issue_type", "Unknown"),
     severity_level |-> Get(flag, "severity_level", "Low"),
     confidence |-> 50,
     text_evidence |-> paragraph,
     rationale |-> Get(flag, "rationale", ""),
     tag_numbers |-> group]

FlagEntry(flag, group, paragraph) ==
    [issue_type |-> Get(flag, "issue_type", "Unknown"),
     severity_level |-> Get(flag, "severity_level", "Low"),
     confidence |-> Get(flag, "confidence", 50),
     text_evidence |-> paragraph,
     rationale |-> Get(flag, "rationale", ""),
     tag_numbers |-> group]

\* the entries of one candidate without the "if paragraph" test: a group
\* that resolves to nothing gives an entry with empty evidence
FlagEntriesUnchecked(flag, groups, tagged_content) ==
    [i \in 1..Len(groups) |->
        [issue_type |-> Get(flag, "issue_type", "Unknown"),
         severity_level |-> Get(flag, "severity_level", "Low"),
         confidence |-> Get(flag, "confidence", 50),
         text_evidence |-> extract_sentences_for_tags(tagged_content, groups[i]),
         rationale |-> Get(flag, "rationale", ""),
         tag_numbers |-> groups[i]]]

\* the entries of one candidate: one per group whose paragraph is not empty
RECURSIVE FlagEntriesOf(_, _, _)
FlagEntriesOf(flag, groups, tagged_content) ==
    IF groups = <<>> THEN <<>>
    ELSE LET paragraph == extract_sentences_for_tags(tagged_content, Head(groups))
         IN (IF paragraph # <<>> THEN <<FlagEntry(flag, Head(groups), paragraph)>>
             ELSE <<>>) \o FlagEntriesOf(flag, Tail(groups), tagged_content)

group_consecutive_flags_raises(flags_raw) ==
    \E i \in 1..Len(flags_raw) : CandidateRaises(flags_raw[i])

\* ContentFlagger._group_consecutive_flags
RECURSIVE group_consecutive_flags(_, _)
group_consecutive_flags(flags_raw, tagged_content) ==
    IF flags_raw = <<>> THEN <<>>
    ELSE FlagEntriesOf(Head(flags_raw), CandidateGroups(Head(flags_raw)), tagged_content)
             \o group_consecutive_flags(Tail(flags_raw), tagged_content)

\* A skill id is the sequence of its dashes and of the pieces of text between
\* them, a piece being a non-empty string without dash and no two pieces
\* being adjacent: 'SKILL-COMP-001' is <<"SKILL", "-", "COMP", "-", "001">>,
\* 'SKILL-' is <<"SKILL", "-">>, 'INVALID' is <<"INVALID">> and the empty
\* string is <<>>.
SkillEntry(skill_tag, group, paragraph) ==
    [sentence_evidence |-> paragraph,
     skill_id |-> Get(skill_tag, "skill_id", <<>>),
     skill_name |-> Get(skill_tag, "skill_name", ""),
     rationale |-> Get(skill_tag, "rationale", ""),
     confidence |-> Get(skill_tag, "confidence", 0),
     tag_numbers |-> group]

RECURSIVE SkillEntriesOf(_, _, _)
SkillEntriesOf(skill_tag, groups, tagged_content) ==
    IF groups = <<>> THEN <<>>
    ELSE LET paragraph == extract_sentences_for_tags(tagged_content, Head(groups))
         IN (IF paragraph # <<>> THEN <<SkillEntry(skill_tag, Head(groups), paragraph)>>
             ELSE <<>>) \o SkillEntriesOf(skill_tag, Tail(groups), tagged_content)

group_consecutive_tags_raises(skill_tags_raw) ==
    \E i \in 1..Len(skill_tags_raw) : CandidateRaises(skill_tags_raw[i])

\* SkillTagger._group_consecutive_tags
RECURSIVE group_consecutive_tags(_, _)
group_consecutive_tags(skill_tags_raw, tagged_content) ==
    IF skill_tags_raw = <<>> THEN <<>>
    ELSE SkillEntriesOf(Head(skill_tags_raw), CandidateGroups(Head(skill_tags_raw)),
                        tagged_content)
             \o group_consecutive_tags(Tail(skill_tags_raw), tagged_content)

(***************************************************************************)
(* Inputs of the pure operations.                                          *)
(***************************************************************************)
SeqsUpTo(S, n) == UNION {[1..m -> S] : m \in 0..n}

\* elements a classifier puts in a tag_numbers list: ids, and ids as strings
SpanElems == (1..MaxId) \cup {StrElem(1), StrElem(2)}

RawValues ==
    {RawInt(n) : n \in 0..MaxId}
        \cup {RawList(s) : s \in SeqsUpTo(SpanElems, MaxSpanLen)}
        \cup {RawOther}

IsIntList(raw) == raw.kind = "list" /\ \A i \in 1..Len(raw.v) : ~IsStr(raw.v[i])

\* sentence i of the sample documents: i word characters and a full stop
RECURSIVE Words(_)
Words(i) == IF i = 0 THEN <<>> ELSE <<W>> \o Words(i - 1)

PlainSentence(i) == Words(i) \o <<DOT>>

\* a document whose sentences are 1..MaxId-1: the id MaxId resolves to nothing
PlainDoc == JoinSpace([i \in 1..(MaxId - 1) |-> PlainSentence(i)])

\* the same document with a line break inside its second sentence
BrokenDoc ==
    JoinSpace([i \in 1..(MaxId - 1) |->
        IF i = 2 THEN <<W, NL>> \o PlainSentence(1) ELSE PlainSentence(i)])

SpanDocs == {PlainDoc, BrokenDoc}

FlagKeys == {"issue_type", "severity_level", "confidence", "rationale", "tag_numbers"}

FlagCandidate(present, issue_type, severity, confidence, raw) ==
    [present |-> present, issue_type |-> issue_type, severity_level |-> severity,
     confidence |-> confidence, rationale |-> "because", tag_numbers |-> raw]

SkillKeys == {"skill_id", "skill_name", "confidence", "rationale", "tag_numbers"}

SkillCandidate(present, skill_id, confidence, raw) ==
    [present |-> present, skill_id |-> skill_id, skill_name |-> "Main idea",
     confidence |-> confidence, rationale |-> "because", tag_numbers |-> raw]

PresentChoices(keys) == {keys, keys \ {"tag_numbers"}, keys \ {"confidence"}}

IdleFlagStory ==
    /\ pc = "idle"
    /\ max_workers = 0
    /\ fut = <<>>
    /\ all_flags_raw = <<>>
    /\ collected = {}
    /\ grouped_flags = <<>>
    /\ sentence_flags = <<>>
    /\ result = <<>>
    /\ validated_tags = <<>>
    /\ tags = <<>>
    /\ results = <<>>

FlagStoryVars ==
    <<pc, max_workers, fut, all_flags_raw, collected, grouped_flags, sentence_flags, result,
      validated_tags, tags, results>>

(***************************************************************************)
(* SpecSpan: the span operations applied to every raw tag_numbers value.   *)
(***************************************************************************)
InitSpan ==
    /\ fn = "start"
    /\ arg \in RawValues
    /\ doc \in SpanDocs
    /\ ret = <<>>
    /\ IdleFlagStory

\* normalize_tag_numbers(arg)
DoNormalize ==
    /\ fn = "start"
    /\ fn' = "normalize"
    /\ ret' = [raised |-> normalize_raises(arg),
               val |-> IF normalize_raises(arg) THEN <<>> ELSE normalize_tag_numbers(arg)]
    /\ UNCHANGED <<arg, doc, FlagStoryVars>>

\* group_consecutive_numbers(arg) for a list
DoGroup ==
    /\ fn = "start"
    /\ arg.kind = "list"
    /\ fn' = "group"
    /\ ret' = [raised |-> group_raises(arg.v),
               val |-> IF group_raises(arg.v) THEN <<>> ELSE group_consecutive_numbers(arg.v)]
    /\ UNCHANGED <<arg, doc, FlagStoryVars>>

\* _group_consecutive_flags(<<candidate with span arg>>, tagged document)
DoGroupFlags ==
    /\ fn = "start"
    /\ \E present \in PresentChoices(FlagKeys) :
          LET flags_raw == <<FlagCandidate(present, "Violence", "Medium", 80, arg)>>
          IN ret' = [input |-> flags_raw,
                     raised |-> group_consecutive_flags_raises(flags_raw),
                     val |-> IF group_consecutive_flags_raises(flags_raw) THEN <<>>
                             ELSE group_consecutive_flags(flags_raw, tag_sentences(doc))]
    /\ fn' = "group_flags"
    /\ UNCHANGED <<arg, doc, FlagStoryVars>>

\* _group_consecutive_tags(<<candidate with span arg>>, tagged document)
DoGroupTags ==
    /\ fn = "start"
    /\ \E present \in PresentChoices(SkillKeys) :
          LET skill_tags_raw ==
                  <<SkillCandidate(present, <<"SKILL", "-", "COMP", "-", "001">>, 90, arg)>>
          IN ret' = [input |-> skill_tags_raw,
                     raised |-> group_consecutive_tags_raises(skill_tags_raw),
                     val |-> IF group_consecutive_tags_raises(skill_tags_raw) THEN <<>>
                             ELSE group_consecutive_tags(skill_tags_raw, tag_sentences(doc))]
    /\ fn' = "group_tags"
    /\ UNCHANGED <<arg, doc, FlagStoryVars>>

\* extract_sentences_for_tags(tagged document, arg) for a list
DoResolve ==
    /\ fn = "start"
    /\ arg.kind = "list"
    /\ fn' = "resolve"
    /\ ret' = [val |-> extract_sentences_for_tags(tag_sentences(doc), arg.v)]
    /\ UNCHANGED <<arg, doc, FlagStoryVars>>

\* spans of a second candidate of the same response
SecondSpans == {RawInt(2), RawList(<<3, 1>>)}

\* _group_consecutive_flags(<<candidate with span arg, second candidate>>, tagged document)
DoGroupFlagsPair ==
    /\ fn = "start"
    /\ \E present \in PresentChoices(FlagKeys), second \in SecondSpans :
          LET flags_raw == <<FlagCandidate(present, "Violence", "Medium", 80, arg),
                             FlagCandidate(FlagKeys, "Bullying", "High", 60, second)>>
          IN ret' = [input |-> flags_raw,
                     raised |-> group_consecutive_flags_raises(flags_raw),
                     val |-> IF group_consecutive_flags_raises(flags_raw) THEN <<>>
                             ELSE group_consecutive_flags(flags_raw, tag_sentences(doc))]
    /\ fn' = "group_flags_pair"
    /\ UNCHANGED <<arg, doc, FlagStoryVars>>

\* _group_consecutive_tags(<<candidate with span arg, second candidate>>, tagged document)
DoGroupTagsPair ==
    /\ fn = "start"
    /\ \E present \in PresentChoices(SkillKeys), second \in SecondSpans :
          LET skill_tags_raw ==
                  <<SkillCandidate(present, <<"SKILL", "-", "COMP", "-", "001">>, 90, arg),
                    SkillCandidate(SkillKeys, <<"SKILL", "-", "DEC", "-", "002">>, 70, second)>>
          IN ret' = [input |-> skill_tags_raw,
                     raised |-> group_consecutive_tags_raises(skill_tags_raw),
                     val |-> IF group_consecutive_tags_raises(skill_tags_raw) THEN <<>>
                             ELSE group_consecutive_tags(skill_tags_raw, tag_sentences(doc))]
    /\ fn' = "group_tags_pair"
    /\ UNCHANGED <<arg, doc, FlagStoryVars>>

NextSpan ==
    \/ DoNormalize
    \/ DoGroup
    \/ DoGroupFlags
    \/ DoGroupTags
    \/ DoResolve
    \/ DoGroupFlagsPair
    \/ DoGroupTagsPair

SpecSpan == InitSpan /\ [][NextSpan]_vars

(***************************************************************************)
(* SpecText: tagging and extraction applied to every short text.           *)
(***************************************************************************)
Alphabet == {W, DOT, SP, NL, Open(1), Close(1)}

\* texts that hold the text of a marker of a later id
MarkerTexts == {<<Open(2), W, Close(2)>>, <<W, DOT, SP, Open(3), W, DOT, Close(3)>>}

Texts == SeqsUpTo(Alphabet, MaxTextLen) \cup MarkerTexts

InitText ==
    /\ fn = "start"
    /\ arg \in Texts
    /\ doc = <<>>
    /\ ret = <<>>
    /\ IdleFlagStory

\* tag_sentences(arg)
DoTag ==
    /\ fn = "start"
    /\ fn' = "tag"
    /\ ret' = tag_sentences(arg)
    /\ UNCHANGED <<arg, doc, FlagStoryVars>>

\* tag_sentences applied to the output of tag_sentences
DoRetag ==
    /\ fn = "tag"
    /\ fn' = "retag"
    /\ ret' = [first |-> ret, second |-> tag_sentences(ret)]
    /\ UNCHANGED <<arg, doc, FlagStoryVars>>

\* extract_sentence_by_tag(tagged, id)
DoExtract ==
    /\ fn = "tag"
    /\ fn' = "extract"
    /\ \E id \in (-1)..MaxId :
          ret' = [tagged |-> ret, id |-> id, val |-> extract_sentence_by_tag(ret, id)]
    /\ UNCHANGED <<arg, doc, FlagStoryVars>>

\* get_sentence_mapping of the tagged text and of the untagged text
DoMapping ==
    /\ fn = "tag"
    /\ fn' = "mapping"
    /\ ret' = [tagged |-> ret,
               of_tagged |-> get_sentence_mapping(ret),
               of_untagged |-> get_sentence_mapping(arg)]
    /\ UNCHANGED <<arg, doc, FlagStoryVars>>

NextText == DoTag \/ DoRetag \/ DoExtract \/ DoMapping

SpecText == InitText /\ [][NextText]_vars

(***************************************************************************)
(* Properties of the span operations (SpecSpan).                           *)
(***************************************************************************)
IsAscendingDistinct(s) == \A i \in 1..(Len(s) - 1) : s[i] < s[i + 1]

\* non-empty, and each element is its predecessor plus one
IsRun(s) == s # <<>> /\ \A i \in 1..(Len(s) - 1) : s[i + 1] = s[i] + 1

RECURSIVE Flatten(_)
Flatten(groups) == IF groups = <<>> THEN <<>> ELSE Head(groups) \o Flatten(Tail(groups))

Count(s, e) == Cardinality({i \in 1..Len(s) : s[i] = e})

SameElements(a, b) ==
    /\ Len(a) = Len(b)
    /\ \A i \in 1..Len(a) : Count(a, a[i]) = Count(b, a[i])

\* C5: for an ascending list of distinct integers group_consecutive_numbers
\* returns the partition into maximal runs of consecutive integers: the
\* runs concatenated give the input, each run is consecutive, a later run
\* starts above the previous run's last element plus one, and the empty
\* list gives the empty list.
C5_GroupingLaw ==
    (fn = "group" /\ IsIntList(arg) /\ IsAscendingDistinct(arg.v)) =>
        /\ ~ret.raised
        /\ Flatten(ret.val) = arg.v
        /\ \A g \in 1..Len(ret.val) : IsRun(ret.val[g])
        /\ \A g \in 1..(Len(ret.val) - 1) :
              ret.val[g + 1][1] > ret.val[g][Len(ret.val[g])] + 1
        /\ (arg.v = <<>> => ret.val = <<>>)

C5_Witness ==
    /\ fn = "group"
    /\ arg = RawList(<<1, 2, 4>>)
    /\ ret.val = <<(<<1, 2>>), (<<4>>)>>

\* C6: every run carried by an entry of _group_consecutive_flags and
\* _group_consecutive_tags is non-empty and consecutive, whatever the order
\* of the candidate's ids and with repeated ids.
C6_EntryRunsConsecutive ==
    (fn \in {"group_flags", "group_tags"} /\ ~ret.raised) =>
        \A e \in 1..Len(ret.val) : IsRun(ret.val[e].tag_numbers)

C6_Witness ==
    /\ fn = "group_flags"
    /\ arg = RawList(<<2, 1, 2>>)
    /\ doc = PlainDoc
    /\ Len(ret.val) = 2
    /\ ret.val[1].tag_numbers = <<1, 2>>
    /\ ret.val[2].tag_numbers = <<2>>

\* C7: normalize_tag_numbers maps an integer n to [n], a list of integers
\* to the ascending list with the same elements and multiplicities, and a
\* value of another type to the empty list.
C7_Normalization ==
    fn = "normalize" =>
        /\ arg.kind = "int" => (~ret.raised /\ ret.val = arg.v)
        /\ IsIntList(arg) =>
              /\ ~ret.raised
              /\ SameElements(ret.val, arg.v)
              /\ \A i \in 1..(Len(ret.val) - 1) : ret.val[i] <= ret.val[i + 1]
        /\ arg.kind = "other" => (~ret.raised /\ ret.val = <<>>)

C7_Witness ==
    /\ fn = "normalize"
    /\ arg = RawList(<<3, 1, 3>>)
    /\ ret.val = <<1, 3, 3>>

Malformed(raw) ==
    \/ raw.kind = "other"
    \/ raw.kind = "list" /\ \E i \in 1..Len(raw.v) : IsStr(raw.v[i])

\* C8: a candidate whose tag_numbers is missing, of a wrong type, or a list
\* with a non-integer element is normalised to the empty span: nothing is
\* raised and it contributes no entry.
C8_MalformedSpanIsEmpty ==
    /\ (fn = "normalize" /\ Malformed(arg)) => (~ret.raised /\ ret.val = <<>>)
    /\ (fn \in {"group_flags", "group_tags"}
          /\ (Malformed(arg) \/ "tag_numbers" \notin ret.input[1].present)) =>
              (~ret.raised /\ ret.val = <<>>)

\* the ids of a list that resolve to a sentence of the tagged document
Resolving(tagged_content, ids) ==
    SelectSeq(ids, LAMBDA e : extract_sentence_by_tag(tagged_content, e) # <<>>)

\* C13: extract_sentences_for_tags gives the texts of the ids that resolve,
\* in the order of the list, joined by one space, and skips the ids that do
\* not resolve; when every id resolves the result is the join of exactly
\* those sentences: split again it gives them and no other sentence.
C13_ResolveJoin ==
    fn = "resolve" =>
        LET sentences == split_into_sentences(doc)
            resolving == Resolving(tag_sentences(doc), arg.v)
            texts == [i \in 1..Len(resolving) |-> sentences[TagOf(resolving[i])]]
        IN /\ ret.val = JoinSpace(texts)
           /\ Len(resolving) = Len(arg.v) => split_into_sentences(ret.val) = texts

\* the id MaxId is not in the document and is skipped
C13_Witness ==
    /\ fn = "resolve"
    /\ doc = PlainDoc
    /\ arg = RawList(<<1, MaxId, 3>>)
    /\ ret.val = PlainSentence(1) \o <<SP>> \o PlainSentence(3)

GroupsFlags == fn \in {"group_flags", "group_flags_pair"}
GroupsTags == fn \in {"group_tags", "group_tags_pair"}

\* the evidence text of an entry of either operation
EvidenceOf(entry) == IF GroupsFlags THEN entry.text_evidence ELSE entry.sentence_evidence

\* <<candidate index, run>> for every run of every candidate that has an id
\* resolving to a sentence, candidates in order, runs in grouping order
RECURSIVE ResolvableRuns(_, _, _)
ResolvableRuns(candidates, i, tagged_content) ==
    IF i > Len(candidates) THEN <<>>
    ELSE LET groups == CandidateGroups(candidates[i])
             kept == SelectSeq(groups, LAMBDA g : Resolving(tagged_content, g) # <<>>)
         IN [k \in 1..Len(kept) |-> <<i, kept[k]>>]
                \o ResolvableRuns(candidates, i + 1, tagged_content)

\* C14: every entry of _group_consecutive_flags and _group_consecutive_tags
\* has a non-empty evidence text; a run none of whose ids resolves gives no
\* entry, and the other runs of the candidate are emitted.
C14_EvidenceNonEmpty ==
    ((GroupsFlags \/ GroupsTags) /\ ~ret.raised) =>
        LET runs == ResolvableRuns(ret.input, 1, tag_sentences(doc))
        IN /\ \A e \in 1..Len(ret.val) : EvidenceOf(ret.val[e]) # <<>>
           /\ [e \in 1..Len(ret.val) |-> ret.val[e].tag_numbers]
                  = [k \in 1..Len(runs) |-> runs[k][2]]

\* the run [MaxId] resolves to nothing and is dropped, the run [1] is kept
C14_Witness ==
    /\ fn = "group_flags"
    /\ doc = PlainDoc
    /\ arg = RawList(<<MaxId, 1>>)
    /\ ~ret.raised
    /\ Len(ret.val) = 1
    /\ ret.val[1].tag_numbers = <<1>>
    /\ ret.val[1].text_evidence = PlainSentence(1)

\* C15: one entry per resolvable run of each candidate, runs ascending
\* within a candidate and candidates in the order given, and every entry
\* carries its candidate's label, severity, confidence and rationale.
C15_OneEntryPerRun ==
    ((GroupsFlags \/ GroupsTags) /\ ~ret.raised) =>
        LET runs == ResolvableRuns(ret.input, 1, tag_sentences(doc))
        IN /\ Len(ret.val) = Len(runs)
           /\ \A k \in 1..Len(runs) :
                 LET c == ret.input[runs[k][1]]
                     e == ret.val[k]
                 IN /\ e.tag_numbers = runs[k][2]
                    /\ (k > 1 /\ runs[k - 1][1] = runs[k][1]) =>
                           runs[k - 1][2][1] <= e.tag_numbers[1]
                    /\ e.rationale = Get(c, "rationale", "")
                    /\ GroupsFlags =>
                           /\ e.issue_type = Get(c, "issue_type", "Unknown")
                           /\ e.severity_level = Get(c, "severity_level", "Low")
                           /\ e.confidence = Get(c, "confidence", 50)
                    /\ GroupsTags =>
                           /\ e.skill_id = Get(c, "skill_id", <<>>)
                           /\ e.skill_name = Get(c, "skill_name", "")
                           /\ e.confidence = Get(c, "confidence", 0)

\* the span [3, 1] of the first candidate gives the entries [1] and [3]
\* with the same properties, followed by the entry of the second candidate
C15_Witness ==
    /\ fn = "group_flags_pair"
    /\ doc = PlainDoc
    /\ arg = RawList(<<3, 1>>)
    /\ Len(ret.val) = 3
    /\ ret.val[1].tag_numbers = <<1>>
    /\ ret.val[2].tag_numbers = <<3>>
    /\ ret.val[1].confidence = 80
    /\ ret.val[2].confidence = 80
    /\ ret.val[2].issue_type = "Violence"
    /\ ret.val[3].tag_numbers = <<2>>
    /\ ret.val[3].issue_type = "Bullying"

(***************************************************************************)
(* Properties of tagging and extraction (SpecText).                        *)
(***************************************************************************)
\* C9 as stated: tagging a tagged text changes nothing
C9_TaggingIdempotent ==
    (fn = "retag" /\ arg # <<>>) => ret.second = ret.first

\* C9 amended: tag_sentences never looks for markers.  A text with at
\* least one sentence is wrapped a second time: the result differs from
\* the tagged text and starts with two open markers <tag1><tag1>; only a
\* text without sentences is left unchanged (both results are empty).
C9_TaggingWrapsAgain ==
    fn = "retag" =>
        IF split_into_sentences(arg) = <<>>
        THEN ret.first = <<>> /\ ret.second = <<>>
        ELSE /\ ret.second # ret.first
             /\ Len(ret.second) >= 2
             /\ ret.second[1] = Open(1)
             /\ ret.second[2] = Open(1)

C9_Witness ==
    /\ fn = "retag"
    /\ arg = <<W, DOT, SP, W, DOT>>
    /\ ret.first = <<Open(1), W, DOT, Close(1), SP, Open(2), W, DOT, Close(2)>>
    /\ ret.second = <<Open(1)>> \o ret.first \o <<Close(1)>>

\* C10: extract_sentence_by_tag(tag_sentences(t), i) is the i-th sentence
\* of split_into_sentences(t), whatever the sentence contains.
C10_RoundTrip ==
    (fn = "extract" /\ ret.id \in 1..Len(split_into_sentences(arg))) =>
        ret.val = split_into_sentences(arg)[ret.id]

\* the list [(1, s1), ..., (n, sn)] of the sentences of a text
NumberedSentences(text) ==
    [i \in 1..Len(split_into_sentences(text)) |-> <<i, split_into_sentences(text)[i]>>]

\* C11: get_sentence_mapping of the tagged text is the list of the
\* sentences of the text with their ids 1..n in document order, no sentence
\* lost, and get_sentence_mapping of the untagged text is the same list.
C11_MappingRoundTrip ==
    fn = "mapping" =>
        /\ ret.of_tagged = NumberedSentences(arg)
        /\ ret.of_untagged = NumberedSentences(arg)

\* C12: extract_sentence_by_tag gives the empty string for every id that is
\* not the id of a sentence of the document (0, negative, above the number
\* of sentences), and split_into_sentences gives the empty sequence for an
\* empty or white-space-only text.
C12_OutOfRangeIsEmpty ==
    /\ (fn = "extract" /\ ret.id \notin 1..Len(split_into_sentences(arg))) =>
            ret.val = <<>>
    /\ (fn = "tag" /\ (\A p \in 1..Len(arg) : IsSpace(arg[p]))) =>
            (split_into_sentences(arg) = <<>> /\ ret = <<>>)

(***************************************************************************)
(* Highlighting.                                                           *)
(***************************************************************************)
\* HighlightingHelper.SEVERITY_COLORS.get(severity, "#fff59d")
SeverityColor(severity) ==
    CASE severity = "Critical" -> "#d32f2f"
      [] severity = "High" -> "#ff6b6b"
      [] severity = "Medium" -> "#ffa726"
      [] OTHER -> "#fff59d"

\* HighlightingHelper.SEVERITY_CSS_CLASSES.get(severity, "flag-low")
SeverityCssClass(severity) ==
    CASE severity = "Critical" -> "flag-critical"
      [] severity = "High" -> "flag-high"
      [] severity = "Medium" -> "flag-medium"
      [] OTHER -> "flag-low"

\* '<span class=... style="background-color: ..." title=...>' and '</span>'
SpanOpen(css_class, color, title) ==
    [k |-> "span", n |-> 0, css_class |-> css_class, color |-> color, title |-> title]
SpanClose == [k |-> "endspan", n |-> 0]

\* the fragment of one sentence always styled by the first covering entry
FlagFragmentFirstStyle(tag_num, text, index) ==
    IF tag_num \in DOMAIN index
    THEN LET flags_list == index[tag_num]
             items == [i \in 1..Len(flags_list) |->
                          <<flags_list[i].severity, flags_list[i].issue_type>>]
         IN <<SpanOpen(flags_list[1].css_class, flags_list[1].color,
                       [multiple |-> Len(flags_list) > 1, items |-> items])>>
                \o text \o <<SpanClose>>
    ELSE text

\* the fragment of one sentence in generate_flag_html_simple
FlagFragment(tag_num, text, index) ==
    IF tag_num \in DOMAIN index
    THEN LET flags_list == index[tag_num]
             items == [i \in 1..Len(flags_list) |->
                          <<flags_list[i].severity, flags_list[i].issue_type>>]
         IN IF Len(flags_list) > 1
            THEN <<SpanOpen("flag-multiple", "#9e9e9e",
                            [multiple |-> TRUE, items |-> items])>> \o text \o <<SpanClose>>
            ELSE <<SpanOpen(flags_list[1].css_class, flags_list[1].color,
                            [multiple |-> FALSE, items |-> items])>> \o text \o <<SpanClose>>
    ELSE text

\* the highlighted text made of the flagged sentences only
generate_flag_html_flagged_only(sentence_mapping, index) ==
    LET flagged == SelectSeq(sentence_mapping, LAMBDA m : m[1] \in DOMAIN index)
    IN JoinSpace([i \in 1..Len(flagged) |->
                     FlagFragment(flagged[i][1], flagged[i][2], index)])

\* HighlightingHelper.generate_flag_html_simple
generate_flag_html_simple(sentence_mapping, index) ==
    JoinSpace([i \in 1..Len(sentence_mapping) |->
                  FlagFragment(sentence_mapping[i][1], sentence_mapping[i][2], index)])

(***************************************************************************)
(* ContentFlagger.flag_story: one _check_category task per category on a   *)
(* thread pool, collected by the calling thread as the futures complete.   *)
(***************************************************************************)
AllCategories ==
    <<"critical_safety", "violence_harm", "age_appropriateness", "cultural_sensitivity",
      "emotional_safety", "technical_issues", "physical_safety">>

CATEGORIES_TO_CHECK == SubSeq(AllCategories, 1, NumCategories)

Categories == {CATEGORIES_TO_CHECK[i] : i \in 1..Len(CATEGORIES_TO_CHECK)}

Range(s) == {s[i] : i \in 1..Len(s)}

\* what the collaborators of _check_category do for one category, by kind:
\*   rubric_missing      get_rubric_category raises KeyError
\*   llm_error           the client raises
\*   none, empty         the client returns None or ""
\*   invalid_json        the text is not JSON
\*   not_object          the text is JSON but not an object (a list, a number, a string, null)
\*   no_key              a JSON object without the key
\*   value_scalar        the key holds a number, true or null
\*   value_str           the key holds a non-empty string
\*   value_object        the key holds a non-empty object
\*   value_empty_str     the key holds ""
\*   value_empty_object  the key holds {}
\*   value_mixed_list    the key holds a list: the candidates given, then a non-object
\*   ok                  the key holds a list of candidates
Response(kind, flags) == [kind |-> kind, flags |-> flags]

FlagSpans ==
    {RawInt(1), RawList(<<3, 1>>),
     RawList(<<StrElem(1)>>), RawList(<<StrElem(1), StrElem(2)>>), RawList(<<1, StrElem(2)>>)}

SeverityOf(raw) == IF raw.kind = "int" THEN "Critical" ELSE "Low"

FlagResponses(category) ==
    {Response(kind, <<>>) : kind \in {"rubric_missing", "llm_error", "empty", "invalid_json"}}
        \cup {Response("ok", <<FlagCandidate(FlagKeys, category, SeverityOf(raw), 90, raw)>>) :
                 raw \in FlagSpans}

MalformedKinds ==
    {"none", "empty", "invalid_json", "not_object", "no_key", "value_scalar", "value_str",
     "value_object", "value_empty_str", "value_empty_object", "value_mixed_list"}

\* ContentFlagger._check_category: [raised, val, type].  The rubric lookup
\* is outside the try; everything after it is caught and gives [].  The
\* value of "flags" is returned as it is when the loop over it raises
\* nothing: an empty string or an empty object has no element to loop over
\* and is returned itself (type), and extend() takes no candidate from it
\* (val).  (The key text_evidence added to each candidate is read by
\* nothing afterwards.)
check_category(response) ==
    IF response.kind = "rubric_missing" THEN [raised |-> TRUE, val |-> <<>>, type |-> "none"]
    ELSE IF response.kind = "value_empty_str"
         THEN [raised |-> FALSE, val |-> <<>>, type |-> "str"]
    ELSE IF response.kind = "value_empty_object"
         THEN [raised |-> FALSE, val |-> <<>>, type |-> "dict"]
    ELSE IF response.kind # "ok" THEN [raised |-> FALSE, val |-> <<>>, type |-> "list"]
    ELSE IF \E i \in 1..Len(response.flags) : normalize_raises(CandidateSpan(response.flags[i]))
         THEN [raised |-> FALSE, val |-> <<>>, type |-> "list"]
    ELSE [raised |-> FALSE, val |-> response.flags, type |-> "list"]

SortKey(entry) == entry.tag_numbers[1]

\* list.sort(key=...): stable
RECURSIVE InsertByKey(_, _)
InsertByKey(x, s) ==
    IF s = <<>> THEN <<x>>
    ELSE IF SortKey(x) < SortKey(Head(s)) THEN <<x>> \o s
    ELSE <<Head(s)>> \o InsertByKey(x, Tail(s))

RECURSIVE SortLoop(_)
SortLoop(s) ==
    IF s = <<>> THEN <<>>
    ELSE InsertByKey(s[Len(s)], SortLoop(SubSeq(s, 1, Len(s) - 1)))

\* the sort left out: the entries stay in collection order
sort_skipped(entries) == entries

\* grouped_flags.sort(key=lambda f: f.get("tag_numbers", [inf])[0])
sort_by_first_tag(entries) == SortLoop(entries)

\* the sort compares a str key with an int key: TypeError
sort_raises(entries) ==
    \E i, j \in 1..Len(entries) : IsStr(SortKey(entries[i])) /\ ~IsStr(SortKey(entries[j]))

\* a severity_level that is a JSON list: it cannot be the key of a lookup
UnhashableSeverity == "[High]"

\* SEVERITY_CSS_CLASSES.get(severity, ...) raises TypeError: unhashable type
style_raises(entries) ==
    \E i \in 1..Len(entries) : entries[i].severity_level = UnhashableSeverity

\* has_critical taken from the first entry only
first_is_critical(flags) == flags # <<>> /\ flags[1].severity = "Critical"

\* any(f["severity"] == "Critical" for f in flags)
has_critical(flags) == \E i \in 1..Len(flags) : flags[i].severity = "Critical"

\* flag_entry of flag_story
FlagOut(flag) ==
    [severity |-> flag.severity_level,
     css_class |-> SeverityCssClass(flag.severity_level),
     color |-> SeverityColor(flag.severity_level),
     issue_type |-> flag.issue_type,
     text_evidence |-> flag.text_evidence,
     rationale |-> flag.rationale,
     confidence |-> flag.confidence]

\* the entry indexed under the first id of its run only
AddFirstOnly(index, tag_numbers, entry) ==
    IF tag_numbers = <<>> THEN index
    ELSE LET t == Head(tag_numbers)
         IN [key \in DOMAIN index \cup {t} |->
                IF key = t
                THEN (IF t \in DOMAIN index THEN Append(index[t], entry) ELSE <<entry>>)
                ELSE index[key]]

\* for tag_num in tag_numbers: sentence_flags[tag_num].append(flag_entry)
RECURSIVE AddToIndex(_, _, _)
AddToIndex(index, tag_numbers, entry) ==
    IF tag_numbers = <<>> THEN index
    ELSE LET t == Head(tag_numbers)
             added == [key \in DOMAIN index \cup {t} |->
                          IF key = t
                          THEN (IF t \in DOMAIN index THEN Append(index[t], entry)
                                ELSE <<entry>>)
                          ELSE index[key]]
         IN AddToIndex(added, Tail(tag_numbers), entry)

RECURSIVE BuildSentenceFlags(_, _)
BuildSentenceFlags(grouped, index) ==
    IF grouped = <<>> THEN index
    ELSE BuildSentenceFlags(Tail(grouped),
             AddToIndex(index, Head(grouped).tag_numbers, FlagOut(Head(grouped))))

(***************************************************************************)
(* Skill highlighting (HighlightingHelper.generate_skill_html_simple).     *)
(***************************************************************************)
\* skill_id.split('-'): the id is cut at every dash; a part with no text
\* (before a leading dash, after a trailing one, between two dashes, or the
\* whole of the empty id) is the empty string.  SplitFrom gives the parts
\* of an id of which `part` has been read and `rest` is to read.
SplitDash(skill_id) ==
    LET RECURSIVE SplitFrom(_, _)
        SplitFrom(rest, part) ==
            IF rest = <<>> THEN <<part>>
            ELSE IF Head(rest) = "-" THEN <<part>> \o SplitFrom(Tail(rest), "")
            ELSE SplitFrom(Tail(rest), Head(rest))
    IN SplitFrom(skill_id, "")

\* HighlightingHelper.CATEGORY_MAP.get(cat_code, "Unknown")
CategoryOfCode(cat_code) ==
    CASE cat_code = "DEC" -> "Decoding"
      [] cat_code = "COMP" -> "Comprehension"
      [] cat_code = "VOCAB" -> "Vocabulary"
      [] cat_code = "KNOW" -> "Knowledge"
      [] cat_code = "FLUENCY" -> "Fluency"
      [] OTHER -> "Unknown"

\* the category code read from the first part of the id instead of the second
extract_category_from_first_part(skill_id) == CategoryOfCode(SplitDash(skill_id)[1])

\* HighlightingHelper.extract_category_from_skill_id
extract_category_from_skill_id(skill_id) ==
    LET parts == SplitDash(skill_id)
    IN IF Len(parts) >= 2 THEN CategoryOfCode(parts[2]) ELSE "Unknown"

\* HighlightingHelper.CATEGORY_HIGHLIGHT_COLORS.get(category, "#95a5a6")
CategoryColor(category) ==
    CASE category = "Decoding" -> "#3498db"
      [] category = "Comprehension" -> "#27ae60"
      [] category = "Vocabulary" -> "#e74c3c"
      [] category = "Knowledge" -> "#f39c12"
      [] category = "Fluency" -> "#9b59b6"
      [] OTHER -> "#95a5a6"

\* HighlightingHelper.CATEGORY_CSS_CLASSES.get(category, "skill-unknown")
CategoryCssClass(category) ==
    CASE category = "Decoding" -> "skill-decoding"
      [] category = "Comprehension" -> "skill-comprehension"
      [] category = "Vocabulary" -> "skill-vocabulary"
      [] category = "Knowledge" -> "skill-knowledge"
      [] category = "Fluency" -> "skill-fluency"
      [] OTHER -> "skill-unknown"

\* the dictionary appended to tag_skills[tag_num]
SkillInfo(skill_tag) ==
    [category |-> extract_category_from_skill_id(skill_tag.skill_id),
     confidence |-> skill_tag.confidence,
     skill_name |-> skill_tag.skill_name,
     skill_id |-> skill_tag.skill_id]

\* the first loop of generate_skill_html_simple: tag_skills
RECURSIVE BuildTagSkills(_, _)
BuildTagSkills(skill_tags, index) ==
    IF skill_tags = <<>> THEN index
    ELSE BuildTagSkills(Tail(skill_tags),
             AddToIndex(index, Head(skill_tags).tag_numbers, SkillInfo(Head(skill_tags))))

\* the fragment of one sentence with the labels of a multiple title
\* listed last entry first
SkillFragmentReversed(tag_num, text, index) ==
    IF tag_num \in DOMAIN index
    THEN LET skills_list == index[tag_num]
             n == Len(skills_list)
             items == [i \in 1..n |-> <<skills_list[n + 1 - i].category,
                                        skills_list[n + 1 - i].skill_name>>]
         IN IF n > 1
            THEN <<SpanOpen("skill-multiple", "#9e9e9e",
                            [multiple |-> TRUE, items |-> items])>> \o text \o <<SpanClose>>
            ELSE <<SpanOpen(CategoryCssClass(skills_list[1].category),
                            CategoryColor(skills_list[1].category),
                            [multiple |-> FALSE, items |-> items,
                             confidence |-> skills_list[1].confidence])>>
                     \o text \o <<SpanClose>>
    ELSE text

\* the fragment of one sentence in generate_skill_html_simple
SkillFragment(tag_num, text, index) ==
    IF tag_num \in DOMAIN index
    THEN LET skills_list == index[tag_num]
             items == [i \in 1..Len(skills_list) |->
                          <<skills_list[i].category, skills_list[i].skill_name>>]
         IN IF Len(skills_list) > 1
            THEN <<SpanOpen("skill-multiple", "#9e9e9e",
                            [multiple |-> TRUE, items |-> items])>> \o text \o <<SpanClose>>
            ELSE <<SpanOpen(CategoryCssClass(skills_list[1].category),
                            CategoryColor(skills_list[1].category),
                            [multiple |-> FALSE, items |-> items,
                             confidence |-> skills_list[1].confidence])>>
                     \o text \o <<SpanClose>>
    ELSE text

\* HighlightingHelper.generate_skill_html_simple
generate_skill_html_simple(sentence_mapping, skill_tags) ==
    LET tag_skills == BuildTagSkills(skill_tags, <<>>)
    IN JoinSpace([i \in 1..Len(sentence_mapping) |->
                     SkillFragment(sentence_mapping[i][1], sentence_mapping[i][2],
                                   tag_skills)])

Done(c) == fut[c].st \in {"returned", "raised"}

NumRunning == Cardinality({c \in Categories : fut[c].st = "running"})

\* the as_completed loop has taken one future only
AnyCollected == collected # {}

\* the as_completed loop has yielded every future and the pool is shut down
AllCollected == collected = Categories

\* the ids of the stories in the story store
StoryIds == 1..NumStories

\* an id that is the id of no story of the store
MissingStoryId == NumStories + 1

\* the story ids a caller asks for
RequestedIds == {1, MissingStoryId}

\* the content of the story in the store (none for an id not in the store)
ContentsOf(story_id) == IF story_id \in StoryIds THEN SpanDocs ELSE {<<>>}

\* flag_story is called: the story is not loaded yet (no tagged_content)
InitFlagStory ==
    /\ fn = "flag_story"
    /\ \E story_id \in RequestedIds :
          /\ doc \in ContentsOf(story_id)
          /\ arg = [story_id |-> story_id, tagged_content |-> <<>>]
    /\ ret = <<>>
    /\ max_workers \in 1..NumCategories
    /\ pc = "load"
    /\ fut = [c \in Categories |-> [st |-> "none", val |-> <<>>]]
    /\ all_flags_raw = <<>>
    /\ collected = {}
    /\ grouped_flags = <<>>
    /\ sentence_flags = <<>>
    /\ result = <<>>
    /\ validated_tags = <<>>
    /\ tags = <<>>
    /\ results = <<>>

\* story = self.data_loader.get_story_with_tagged_sentences(story_id), the
\* first statement of flag_story and of tag_story: get_story_by_id raises
\* ValueError for an id that is not in the store and the caller lets it
\* through; otherwise the story gets its tagged_content
GetStory ==
    /\ pc = "load"
    /\ IF arg.story_id \in StoryIds
       THEN /\ arg' = [arg EXCEPT !.tagged_content = tag_sentences(doc)]
            /\ pc' = IF fn = "flag_story" THEN "submit" ELSE "identify"
            /\ UNCHANGED result
       ELSE /\ pc' = "not_found"
            /\ result' = [error |-> "ValueError"]
            /\ UNCHANGED arg
    /\ UNCHANGED <<fn, doc, ret, max_workers, fut, all_flags_raw, collected,
                   grouped_flags, sentence_flags, validated_tags, tags, results>>

\* one executor.submit of the dictionary comprehension: the categories of
\* CATEGORIES_TO_CHECK are submitted one at a time, in order, and the pool
\* may start and finish a submitted task while the later categories are
\* still to be submitted; the as_completed loop starts after the last one
Submit(i) ==
    /\ pc = "submit"
    /\ fut[CATEGORIES_TO_CHECK[i]].st = "none"
    /\ \A j \in 1..(i - 1) : fut[CATEGORIES_TO_CHECK[j]].st # "none"
    /\ pc' = IF i = Len(CATEGORIES_TO_CHECK) THEN "collect" ELSE "submit"
    /\ fut' = [fut EXCEPT ![CATEGORIES_TO_CHECK[i]].st = "pending"]
    /\ UNCHANGED <<fn, arg, doc, ret, max_workers, all_flags_raw, collected,
                   grouped_flags, sentence_flags, result, validated_tags, tags, results>>

\* a free worker takes the oldest queued task
StartCheck(i) ==
    /\ fut[CATEGORIES_TO_CHECK[i]].st = "pending"
    /\ \A j \in 1..(i - 1) : fut[CATEGORIES_TO_CHECK[j]].st # "pending"
    /\ NumRunning < max_workers
    /\ fut' = [fut EXCEPT ![CATEGORIES_TO_CHECK[i]].st = "running"]
    /\ UNCHANGED <<fn, arg, doc, ret, pc, max_workers, all_flags_raw, collected,
                   grouped_flags, sentence_flags, result, validated_tags, tags, results>>

\* _check_category returns or raises
FinishCheck(c) ==
    /\ fut[c].st = "running"
    /\ \E response \in FlagResponses(c) :
          LET r == check_category(response)
          IN fut' = [fut EXCEPT ![c] = [st |-> IF r.raised THEN "raised" ELSE "returned",
                                        val |-> r.val]]
    /\ UNCHANGED <<fn, arg, doc, ret, pc, max_workers, all_flags_raw, collected,
                   grouped_flags, sentence_flags, result, validated_tags, tags, results>>

\* one turn of "for future in as_completed(...)": future.result() extends
\* all_flags_raw, or raises and only a warning is printed.  as_completed
\* yields the futures already finished in no fixed order and the others as
\* they finish, so any finished future not yet taken may come next.
Collect(c) ==
    /\ pc = "collect"
    /\ Done(c)
    /\ c \notin collected
    /\ collected' = collected \cup {c}
    /\ all_flags_raw' = IF fut[c].st = "returned" THEN all_flags_raw \o fut[c].val
                        ELSE all_flags_raw
    /\ UNCHANGED <<fn, arg, doc, ret, pc, max_workers, fut, grouped_flags,
                   sentence_flags, result, validated_tags, tags, results>>

\* the rest of flag_story after the with block: mapping, grouping, sort,
\* flag entries, sentence_flags, highlighted text, result
Merge ==
    /\ pc = "collect"
    /\ AllCollected
    /\ LET tagged_content == arg.tagged_content
           sentence_mapping == get_sentence_mapping(tagged_content)
           group_fails == group_consecutive_flags_raises(all_flags_raw)
           grouped == IF group_fails THEN <<>>
                      ELSE group_consecutive_flags(all_flags_raw, tagged_content)
           sort_fails == sort_raises(grouped)
           sorted == IF sort_fails THEN grouped ELSE sort_by_first_tag(grouped)
           style_fails == style_raises(sorted)
           flags == [i \in 1..Len(sorted) |-> FlagOut(sorted[i])]
           index == BuildSentenceFlags(sorted, <<>>)
       IN IF group_fails \/ sort_fails \/ style_fails
          THEN /\ pc' = "raised"
               /\ result' = [error |-> "TypeError"]
               /\ grouped_flags' = grouped
               /\ sentence_flags' = <<>>
          ELSE /\ pc' = "returned"
               /\ grouped_flags' = sorted
               /\ sentence_flags' = index
               /\ result' = [story_id |-> arg.story_id,
                             flag_count |-> Len(flags),
                             has_critical |-> has_critical(flags),
                             highlighted_text |->
                                 generate_flag_html_simple(sentence_mapping, index),
                             flags |-> flags]
    /\ UNCHANGED <<fn, arg, doc, ret, max_workers, fut, all_flags_raw, collected,
                   validated_tags, tags, results>>

Next ==
    \/ GetStory
    \/ \E i \in 1..NumCategories : Submit(i)
    \/ \E i \in 1..NumCategories : StartCheck(i)
    \/ \E c \in Categories : FinishCheck(c)
    \/ \E c \in Categories : Collect(c)
    \/ Merge

Spec == InitFlagStory /\ [][Next]_vars

\* the calling thread has left the with block and has the merge to run
AtMerge == pc = "collect" /\ AllCollected

\* worker threads that can run do run, a classifier call that runs
\* terminates (returns or raises), and the calling thread goes on: it
\* loads the story, submits, takes every finished future, and does not stop
\* at the merge, which waits for nothing
FairSpec ==
    /\ Spec
    /\ WF_vars(GetStory)
    /\ WF_vars(\E i \in 1..NumCategories : Submit(i))
    /\ WF_vars(\E i \in 1..NumCategories : StartCheck(i))
    /\ WF_vars(\E c \in Categories : FinishCheck(c))
    /\ WF_vars(\E c \in Categories : Collect(c))
    /\ []<>(~AtMerge)

(***************************************************************************)
(* SkillTagger.tag_story: one classifier call, then the same grouping,     *)
(* sort and highlighting on the calling thread.                            *)
(***************************************************************************)
\* set(self.data_loader.skills['skill_id'].tolist()) for the model's taxonomy
valid_skill_ids == {<<"SKILL", "-", "COMP", "-", "001">>, <<"SKILL", "-", "DEC", "-", "002">>}

\* a skill_id that is a JSON list (["x"]) or object: it cannot be hashed,
\* so it cannot be looked up in a set
UnhashableSkillId == <<"[x]">>

\* the skill ids the classifier gives: the ids of the taxonomy, a string
\* that is not in it, and a value that is not a string
SkillIds == valid_skill_ids \cup {<<"SKILL", "-", "BAD", "-", "999">>, UnhashableSkillId}

\* spans the classifiers give for the sample documents: MaxId is the id of
\* no sentence, and sentence 2 of BrokenDoc does not resolve
StorySpans ==
    {RawInt(1), RawList(<<1, 2>>), RawList(<<2, 3>>), RawList(<<3, 1>>),
     RawList(<<MaxId - 1, MaxId>>), RawList(<<StrElem(1)>>)}

\* the classifier's confidence for a skill, in hundredths; 150 is out of range
ConfidenceOf(skill_id) == IF skill_id = <<"SKILL", "-", "DEC", "-", "002">> THEN 150 ELSE 90

\* the candidates of a story: every string id with every span, and the
\* unhashable id, whose span is never read, with one span
SkillCandidates ==
    {SkillCandidate(SkillKeys, id, ConfidenceOf(id), raw) :
         id \in SkillIds \ {UnhashableSkillId}, raw \in StorySpans}
        \cup {SkillCandidate(SkillKeys, UnhashableSkillId, 90, RawInt(1))}

\* what the client gives _identify_skills: it raises, the text is not JSON,
\* or it is a JSON object whose "skill_tags" is a list of candidates
SkillResponse(kind, skill_tags) == [kind |-> kind, skill_tags |-> skill_tags]

SkillResponses ==
    {SkillResponse(kind, <<>>) : kind \in {"llm_error", "invalid_json"}}
        \cup {SkillResponse("ok", cands) : cands \in SeqsUpTo(SkillCandidates, MaxCandidates)}

\* a confidence that float() cannot convert (the string "high", null)
NonNumeric == 0 - 1000

\* float(confidence) raises ValueError or TypeError
float_raises(confidence) == confidence <= NonNumeric

\* the confidence left as the classifier gave it
NoClamp(confidence) == confidence

\* max(0.0, min(1.0, float(confidence)))
Clamp(confidence) ==
    IF confidence < 0 THEN 0 ELSE IF confidence > 100 THEN 100 ELSE confidence

\* the validation loop of _identify_skills, from the candidate at the head of
\* skill_tags on, validated being the candidates appended so far.
\* tag.get("skill_id") is None for a missing key; "skill_id in
\* valid_skill_ids" hashes the id and raises TypeError for an unhashable
\* one; float(confidence) raises for a confidence that is not a number.
\* The loop stops at the first raise.
RECURSIVE ValidatedTags(_, _)
ValidatedTags(skill_tags, validated) ==
    IF skill_tags = <<>> THEN [raised |-> FALSE, val |-> validated]
    ELSE LET tag == Head(skill_tags)
             has_id == "skill_id" \in tag.present
         IN IF has_id /\ tag.skill_id = UnhashableSkillId
            THEN [raised |-> TRUE, val |-> <<>>]
            ELSE IF has_id /\ tag.skill_id \in valid_skill_ids
            THEN (IF float_raises(Get(tag, "confidence", 0))
                  THEN [raised |-> TRUE, val |-> <<>>]
                  ELSE ValidatedTags(Tail(skill_tags),
                           Append(validated,
                               [tag EXCEPT !.confidence = Clamp(Get(tag, "confidence", 0)),
                                           !.present = tag.present \cup {"confidence"}])))
            ELSE ValidatedTags(Tail(skill_tags), validated)

\* the validation loop raises
validation_raises(skill_tags) == ValidatedTags(skill_tags, <<>>).raised

\* SkillTagger._identify_skills: every exception is caught and gives []
identify_skills(response) ==
    IF response.kind # "ok" THEN <<>>
    ELSE IF validation_raises(response.skill_tags) THEN <<>>
    ELSE ValidatedTags(response.skill_tags, <<>>).val

\* the sort with the list reversed first: entries with the same first id
\* come out in the opposite order
sort_tags_reversed_first(entries) ==
    SortLoop([i \in 1..Len(entries) |-> entries[Len(entries) + 1 - i]])

\* tags.sort(key=lambda t: t.get("tag_numbers", [inf])[0])
sort_tags_by_first_tag(entries) == SortLoop(entries)

\* final_tag of tag_story
FinalTag(tag) ==
    [sentence_evidence |-> tag.sentence_evidence,
     skill_id |-> tag.skill_id,
     skill_name |-> tag.skill_name,
     rationale |-> tag.rationale,
     confidence |-> tag.confidence]

\* tag_story is called: the story is not loaded yet (no tagged_content)
InitTagStory ==
    /\ fn = "tag_story"
    /\ \E story_id \in RequestedIds :
          /\ doc \in ContentsOf(story_id)
          /\ arg = [story_id |-> story_id, tagged_content |-> <<>>]
    /\ ret = <<>>
    /\ pc = "load"
    /\ max_workers = 0
    /\ fut = <<>>
    /\ all_flags_raw = <<>>
    /\ collected = {}
    /\ grouped_flags = <<>>
    /\ sentence_flags = <<>>
    /\ result = <<>>
    /\ validated_tags = <<>>
    /\ tags = <<>>
    /\ results = <<>>

\* skill_tags_raw = self._identify_skills(...): ret is the classifier's response
IdentifySkills ==
    /\ pc = "identify"
    /\ \E response \in SkillResponses :
          /\ ret' = response
          /\ validated_tags' = identify_skills(response)
    /\ pc' = "tag_merge"
    /\ UNCHANGED <<fn, arg, doc, max_workers, fut, all_flags_raw, collected,
                   grouped_flags, sentence_flags, result, tags, results>>

\* the rest of tag_story: mapping, grouping, sort, highlighted text, result
TagMerge ==
    /\ pc = "tag_merge"
    /\ LET tagged_content == arg.tagged_content
           sentence_mapping == get_sentence_mapping(tagged_content)
           group_fails == group_consecutive_tags_raises(validated_tags)
           grouped == IF group_fails THEN <<>>
                      ELSE group_consecutive_tags(validated_tags, tagged_content)
           sort_fails == sort_raises(grouped)
           sorted == IF sort_fails THEN grouped ELSE sort_tags_by_first_tag(grouped)
       IN IF group_fails \/ sort_fails
          THEN /\ pc' = "tag_raised"
               /\ result' = [error |-> "TypeError"]
               /\ tags' = grouped
          ELSE /\ pc' = "tag_returned"
               /\ tags' = sorted
               /\ result' = [story_id |-> arg.story_id,
                             tags |-> [i \in 1..Len(sorted) |-> FinalTag(sorted[i])],
                             highlighted_text |->
                                 generate_skill_html_simple(sentence_mapping, sorted)]
    /\ UNCHANGED <<fn, arg, doc, ret, max_workers, fut, all_flags_raw, collected,
                   grouped_flags, sentence_flags, validated_tags, results>>

(***************************************************************************)
(* SpecParse: the two response parsers applied to every kind of classifier *)
(* response, and the two style lookups applied to every label.             *)
(***************************************************************************)
ParseSpans == {RawInt(1), RawList(<<1, 2>>), RawList(<<1, StrElem(2)>>)}

FlagParseCandidates ==
    {FlagCandidate(present, "violence_harm", "High", 90, raw) :
        present \in PresentChoices(FlagKeys), raw \in ParseSpans}

FlagParseResponses ==
    {Response(kind, <<>>) : kind \in MalformedKinds \cup {"rubric_missing", "llm_error"}}
        \cup {Response("value_mixed_list", <<c>>) : c \in FlagParseCandidates}
        \cup {Response("ok", cands) : cands \in SeqsUpTo(FlagParseCandidates, MaxCandidates)}

\* confidences in hundredths: in range, above 1, below 0, not a number
ParseConfidences == {90, 150, 0 - 20, NonNumeric}

SkillParseCandidates ==
    {SkillCandidate(present, id, confidence, RawList(<<1, 2>>)) :
        present \in {SkillKeys, SkillKeys \ {"confidence"}, SkillKeys \ {"skill_id"}},
        id \in SkillIds, confidence \in ParseConfidences}

SkillParseResponses ==
    {SkillResponse(kind, <<>>) : kind \in MalformedKinds \cup {"llm_error"}}
        \cup {SkillResponse("value_mixed_list", <<c>>) : c \in SkillParseCandidates}
        \cup {SkillResponse("ok", cands) :
                  cands \in SeqsUpTo(SkillParseCandidates, MaxCandidates)}

\* the four levels, and labels outside them
SeverityLevels == {"Critical", "High", "Medium", "Low"}

SeverityLabels == SeverityLevels \cup {"Extreme", "critical", ""}

\* every skill id of 1 to MaxParts dash-separated parts, each part being
\* the prefix, one of the five category codes, a code that is in no table
\* ("BAD", "comp"), a number, a word or the empty string: ids of the five
\* categories ('SKILL-DEC-001'), ids whose category code is unknown
\* ('SKILL-BAD-001', 'SKILL-comp-001', 'COMP-001', 'SKILL-', 'SKILL--DEC'),
\* and ids with no dash ('INVALID', '').  Dashed(parts) is '-'.join(parts).
StyleSkillIds ==
    LET Pieces == {"SKILL", "DEC", "COMP", "VOCAB", "KNOW", "FLUENCY", "BAD", "comp",
                   "001", "INVALID", ""}
        Piece(p) == IF p = "" THEN <<>> ELSE <<p>>
        RECURSIVE Dashed(_)
        Dashed(parts) ==
            IF Len(parts) = 1 THEN Piece(parts[1])
            ELSE Piece(Head(parts)) \o <<"-">> \o Dashed(Tail(parts))
    IN {Dashed(parts) : parts \in UNION {[1..n -> Pieces] : n \in 1..MaxParts}}

InitParse ==
    /\ fn = "start"
    /\ doc = <<>>
    /\ \/ arg \in FlagParseResponses
       \/ arg \in SkillParseResponses
       \/ arg \in {[severity |-> s] : s \in SeverityLabels}
       \/ arg \in {[skill_id |-> id] : id \in StyleSkillIds}
    /\ ret = <<>>
    /\ IdleFlagStory

\* ContentFlagger._check_category on one response
DoCheckCategory ==
    /\ fn = "start"
    /\ "flags" \in DOMAIN arg
    /\ fn' = "check_category"
    /\ ret' = check_category(arg)
    /\ UNCHANGED <<arg, doc, FlagStoryVars>>

\* SkillTagger._identify_skills on one response
DoIdentifySkills ==
    /\ fn = "start"
    /\ "skill_tags" \in DOMAIN arg
    /\ fn' = "identify_skills"
    /\ ret' = identify_skills(arg)
    /\ UNCHANGED <<arg, doc, FlagStoryVars>>

\* css_class and color of a flag entry (flag_story)
DoSeverityStyle ==
    /\ fn = "start"
    /\ "severity" \in DOMAIN arg
    /\ fn' = "severity_style"
    /\ ret' = [css_class |-> SeverityCssClass(arg.severity),
               color |-> SeverityColor(arg.severity)]
    /\ UNCHANGED <<arg, doc, FlagStoryVars>>

\* category, color and css_class of a single skill (generate_skill_html_simple)
DoCategoryStyle ==
    /\ fn = "start"
    /\ "skill_id" \in DOMAIN arg
    /\ fn' = "category_style"
    /\ LET category == extract_category_from_skill_id(arg.skill_id)
       IN ret' = [category |-> category,
                  css_class |-> CategoryCssClass(category),
                  color |-> CategoryColor(category)]
    /\ UNCHANGED <<arg, doc, FlagStoryVars>>

NextParse == DoCheckCategory \/ DoIdentifySkills \/ DoSeverityStyle \/ DoCategoryStyle

SpecParse == InitParse /\ [][NextParse]_vars

(***************************************************************************)
(* SpecAll: flag_all_stories and tag_all_stories: one flag_story or        *)
(* tag_story task per story on a thread pool, collected by the calling     *)
(* thread as the futures complete.                                         *)
(***************************************************************************)
\* self.data_loader.stories['story_id'].tolist(): the ids in the order of
\* the store, ascending or descending
StoryIdLists ==
    {[k \in 1..NumStories |-> k], [k \in 1..NumStories |-> NumStories + 1 - k]}

\* what a per-story task does: flag_story (tag_story) returns its result
\* dictionary, or raises an exception e with the text str(e)
StoryOutcomes(f, story_id) ==
    {[raised |-> TRUE, val |-> [error |-> "TypeError"]],
     [raised |-> FALSE,
      val |-> IF f = "flag_all_stories"
              THEN [story_id |-> story_id, flag_count |-> 1, has_critical |-> TRUE]
              ELSE [story_id |-> story_id, tags |-> <<>>]]}

\* the error record with the story id left out (0 is the id of no story)
ErrorRecordAnonymous(f, story_id, e) ==
    IF f = "flag_all_stories"
    THEN [story_id |-> 0, error |-> e, highlighting |-> <<>>,
          flag_count |-> 0, has_critical |-> FALSE]
    ELSE [story_id |-> 0, error |-> e, skill_tags |-> <<>>]

\* the record stored for a story whose task raised e
ErrorRecord(f, story_id, e) ==
    IF f = "flag_all_stories"
    THEN [story_id |-> story_id, error |-> e, highlighting |-> <<>>,
          flag_count |-> 0, has_critical |-> FALSE]
    ELSE [story_id |-> story_id, error |-> e, skill_tags |-> <<>>]

\* results[story_id] of the dictionary, kept as its items in insertion order
Lookup(d, story_id) ==
    d[CHOOSE i \in 1..Len(d) : d[i].key = story_id].value

\* list(results.values()): the results in the order of completion
ResultsInInsertionOrder(story_ids, d) == [k \in 1..Len(d) |-> d[k].value]

\* [results[story_id] for story_id in story_ids]
ResultList(story_ids, d) == [k \in 1..Len(story_ids) |-> Lookup(d, story_ids[k])]

NumStoriesRunning == Cardinality({s \in StoryIds : fut[s].st = "running"})

InitAll ==
    /\ fn \in {"flag_all_stories", "tag_all_stories"}
    /\ doc = <<>>
    /\ arg \in {[story_ids |-> ids] : ids \in StoryIdLists}
    /\ ret = <<>>
    /\ pc = "submit"
    /\ max_workers \in 1..NumStories
    /\ fut = [s \in StoryIds |-> [st |-> "none", val |-> <<>>]]
    /\ all_flags_raw = <<>>
    /\ collected = {}
    /\ grouped_flags = <<>>
    /\ sentence_flags = <<>>
    /\ result = <<>>
    /\ validated_tags = <<>>
    /\ tags = <<>>
    /\ results = <<>>

\* one executor.submit of the dictionary comprehension: the story ids of
\* story_ids are submitted one at a time, in order, and the pool may start
\* and finish a submitted task while the later ids are still to be
\* submitted; the as_completed loop starts after the last one
SubmitStory(k) ==
    /\ pc = "submit"
    /\ fut[arg.story_ids[k]].st = "none"
    /\ \A j \in 1..(k - 1) : fut[arg.story_ids[j]].st # "none"
    /\ pc' = IF k = Len(arg.story_ids) THEN "collect" ELSE "submit"
    /\ fut' = [fut EXCEPT ![arg.story_ids[k]].st = "pending"]
    /\ UNCHANGED <<fn, arg, doc, ret, max_workers, all_flags_raw, collected,
                   grouped_flags, sentence_flags, result, validated_tags, tags, results>>

\* a free worker takes the oldest queued task
StartStory(k) ==
    /\ fut[arg.story_ids[k]].st = "pending"
    /\ \A j \in 1..(k - 1) : fut[arg.story_ids[j]].st # "pending"
    /\ NumStoriesRunning < max_workers
    /\ fut' = [fut EXCEPT ![arg.story_ids[k]].st = "running"]
    /\ UNCHANGED <<fn, arg, doc, ret, pc, max_workers, all_flags_raw, collected,
                   grouped_flags, sentence_flags, result, validated_tags, tags, results>>

\* flag_story (tag_story) returns or raises
FinishStory(s) ==
    /\ fut[s].st = "running"
    /\ \E r \in StoryOutcomes(fn, s) :
          fut' = [fut EXCEPT ![s] = [st |-> IF r.raised THEN "raised" ELSE "returned",
                                     val |-> r.val]]
    /\ UNCHANGED <<fn, arg, doc, ret, pc, max_workers, all_flags_raw, collected,
                   grouped_flags, sentence_flags, result, validated_tags, tags, results>>

\* one turn of "for future in as_completed(future_to_story)": the result of
\* the future, or the error record when future.result() raises, is stored
\* under the story id
CollectStory(s) ==
    /\ pc = "collect"
    /\ fut[s].st \in {"returned", "raised"}
    /\ s \notin collected
    /\ collected' = collected \cup {s}
    /\ results' = Append(results,
                     [key |-> s,
                      value |-> IF fut[s].st = "returned" THEN fut[s].val
                                ELSE ErrorRecord(fn, s, fut[s].val.error)])
    /\ UNCHANGED <<fn, arg, doc, ret, pc, max_workers, fut, all_flags_raw,
                   grouped_flags, sentence_flags, result, validated_tags, tags>>

\* the with block is left when every future has been taken; the list is
\* built in the order of story_ids
ReturnAll ==
    /\ pc = "collect"
    /\ collected = StoryIds
    /\ pc' = "returned"
    /\ result' = ResultList(arg.story_ids, results)
    /\ UNCHANGED <<fn, arg, doc, ret, max_workers, fut, all_flags_raw, collected,
                   grouped_flags, sentence_flags, validated_tags, tags, results>>

NextAll ==
    \/ \E k \in 1..NumStories : SubmitStory(k)
    \/ \E k \in 1..NumStories : StartStory(k)
    \/ \E s \in StoryIds : FinishStory(s)
    \/ \E s \in StoryIds : CollectStory(s)
    \/ ReturnAll

SpecAll == InitAll /\ [][NextAll]_vars

\* worker threads that can run do run, a per-story task that runs finishes
\* (every classifier call terminates), and the calling thread goes on
FairSpecAll == SpecAll /\ WF_vars(NextAll)

(***************************************************************************)
(* SpecStory: the part of flag_story after the with block and tag_story,   *)
(* applied to every short list of candidates.                              *)
(***************************************************************************)
Severities == {"Low", "Critical"}

\* the candidates of up to MaxCandidates categories, one per category, in
\* the order in which the as_completed loop collected them
\* the keys a candidate carries, its severity and its span: every key, or
\* no confidence, or neither issue_type nor severity_level (the fields of a
\* key that is absent hold values that nothing may read)
FlagOptions ==
    ({FlagKeys} \X Severities \X StorySpans)
        \cup {<<FlagKeys \ {"confidence"}, "Critical", RawList(<<3, 1>>)>>,
               <<FlagKeys \ {"issue_type", "severity_level"}, "Critical", RawInt(1)>>}

FlagCandidateLists ==
    UNION {{[i \in 1..m |->
                FlagCandidate(f[i][1], CATEGORIES_TO_CHECK[i], f[i][2], 90, f[i][3])] :
               f \in [1..m -> FlagOptions]} : m \in 0..MaxCandidates}
        \cup {<<FlagCandidate(FlagKeys, CATEGORIES_TO_CHECK[1], UnhashableSeverity, 90,
                               RawInt(1))>>}

\* flag_story when the with block is left: every category has returned and
\* has been collected
InitCollected ==
    /\ fn = "flag_story"
    /\ doc \in SpanDocs
    /\ arg = [story_id |-> 1, tagged_content |-> tag_sentences(doc)]
    /\ ret = <<>>
    /\ pc = "collect"
    /\ max_workers = NumCategories
    /\ all_flags_raw \in FlagCandidateLists
    /\ fut = [c \in Categories |->
                 [st |-> "returned",
                  val |-> SelectSeq(all_flags_raw, LAMBDA flag : flag.issue_type = c)]]
    /\ collected = Categories
    /\ grouped_flags = <<>>
    /\ sentence_flags = <<>>
    /\ result = <<>>
    /\ validated_tags = <<>>
    /\ tags = <<>>
    /\ results = <<>>

InitStory == InitCollected \/ InitTagStory

NextStory == GetStory \/ Merge \/ IdentifySkills \/ TagMerge

SpecStory == InitStory /\ [][NextStory]_vars

(***************************************************************************)
(* Properties of the merged list, the coverage index and the highlighted   *)
(* text of both operations (SpecStory).                                    *)
(***************************************************************************)
IsFlagStory == fn = "flag_story"

StoryReturned == pc \in {"returned", "tag_returned"}

\* the merged, sorted list of entries of the story
MergedEntries == IF IsFlagStory THEN grouped_flags ELSE tags

\* sentence_flags of flag_story, tag_skills of generate_skill_html_simple
CoverageIndex == IF IsFlagStory THEN sentence_flags ELSE BuildTagSkills(tags, <<>>)

\* what the index holds for an entry of the merged list
IndexEntry(entry) == IF IsFlagStory THEN FlagOut(entry) ELSE SkillInfo(entry)

Covers(entry, id) == \E k \in 1..Len(entry.tag_numbers) : entry.tag_numbers[k] = id

CoveringEntries(entries, id) == SelectSeq(entries, LAMBDA e : Covers(e, id))

CoveredIds(entries) == UNION {Range(entries[i].tag_numbers) : i \in 1..Len(entries)}

\* C16: the coverage index maps each id to exactly the entries of the
\* merged list whose run contains the id, in merged-list order; an id that
\* is in no run has no key.
C16_CoverageIndex ==
    StoryReturned =>
        /\ DOMAIN CoverageIndex = CoveredIds(MergedEntries)
        /\ \A id \in DOMAIN CoverageIndex :
              CoverageIndex[id] =
                  [k \in 1..Len(CoveringEntries(MergedEntries, id)) |->
                      IndexEntry(CoveringEntries(MergedEntries, id)[k])]

\* two entries cover sentence 1, one of them covers sentence 2 as well, and
\* sentence 3 has no key
C16_Witness ==
    /\ pc = "returned"
    /\ doc = PlainDoc
    /\ DOMAIN sentence_flags = {1, 2}
    /\ Len(sentence_flags[1]) = 2
    /\ Len(sentence_flags[2]) = 1
    /\ sentence_flags[1][2] = sentence_flags[2][1]
    /\ sentence_flags[1][1] # sentence_flags[1][2]

\* the sentence mapping and the highlighted text of the returned result
Mapping == get_sentence_mapping(arg.tagged_content)

Html == result.highlighted_text

CoveringOf(i) == CoveringEntries(MergedEntries, Mapping[i][1])

\* the fragment of sentence i: its text, with a wrapper of two tokens when
\* an entry covers it; the fragments are one space apart
FragLen(i) == Len(Mapping[i][2]) + (IF CoveringOf(i) # <<>> THEN 2 ELSE 0)

RECURSIVE FragStart(_)
FragStart(i) == IF i = 1 THEN 1 ELSE FragStart(i - 1) + FragLen(i - 1) + 1

Fragment(i) == SubSeq(Html, FragStart(i), FragStart(i) + FragLen(i) - 1)

\* the text between the wrapper tokens of a wrapped fragment
Inner(fragment) == SubSeq(fragment, 2, Len(fragment) - 1)

\* class and color of an entry's own style, and of the neutral style
OwnStyle(entry) ==
    IF IsFlagStory
    THEN <<SeverityCssClass(entry.severity_level), SeverityColor(entry.severity_level)>>
    ELSE <<CategoryCssClass(extract_category_from_skill_id(entry.skill_id)),
           CategoryColor(extract_category_from_skill_id(entry.skill_id))>>

NeutralStyle ==
    IF IsFlagStory THEN <<"flag-multiple", "#9e9e9e">> ELSE <<"skill-multiple", "#9e9e9e">>

StyleOf(token) == <<token.css_class, token.color>>

\* C17: the style of a sentence depends on the number of covering entries
\* only: none, the plain text without wrapper; one, the wrapper with that
\* entry's own class and color; two or more, the wrapper with the neutral
\* class and color, which is the style of none of the covering entries.
C17_StyleByCoverCount ==
    StoryReturned =>
        \A i \in 1..Len(Mapping) :
            LET covering == CoveringOf(i)
                fragment == Fragment(i)
            IN IF covering = <<>> THEN fragment = Mapping[i][2]
               ELSE /\ fragment[1].k = "span"
                    /\ Inner(fragment) = Mapping[i][2]
                    /\ fragment[Len(fragment)] = SpanClose
                    /\ Len(covering) = 1 => StyleOf(fragment[1]) = OwnStyle(covering[1])
                    /\ Len(covering) > 1 =>
                           /\ StyleOf(fragment[1]) = NeutralStyle
                           /\ \A k \in 1..Len(covering) :
                                  StyleOf(fragment[1]) # OwnStyle(covering[k])

\* sentence 1 has two entries (neutral), sentence 2 one entry (its severity
\* style), sentence 3 none (plain)
C17_Witness ==
    /\ pc = "returned"
    /\ doc = PlainDoc
    /\ Len(CoveringOf(1)) = 2
    /\ Len(CoveringOf(2)) = 1
    /\ CoveringOf(3) = <<>>
    /\ StyleOf(Fragment(1)[1]) = <<"flag-multiple", "#9e9e9e">>
    /\ StyleOf(Fragment(2)[1]) = <<"flag-critical", "#d32f2f">>
    /\ Fragment(3) = PlainSentence(3)

\* the label of an entry in a title
LabelOf(entry) ==
    IF IsFlagStory THEN <<entry.severity_level, entry.issue_type>>
    ELSE <<extract_category_from_skill_id(entry.skill_id), entry.skill_name>>

\* C18: the title of a sentence with two or more covering entries lists
\* each of them once, as severity and issue type (category and skill name),
\* in the order of the merged list, not ordered by severity or confidence.
C18_TitleInMergedOrder ==
    StoryReturned =>
        \A i \in 1..Len(Mapping) :
            LET covering == CoveringOf(i)
            IN Len(covering) > 1 =>
                  /\ Fragment(i)[1].title.multiple
                  /\ Fragment(i)[1].title.items =
                         [k \in 1..Len(covering) |-> LabelOf(covering[k])]

\* the Low entry precedes the Critical entry in the merged list and in the title
C18_Witness ==
    /\ pc = "returned"
    /\ doc = PlainDoc
    /\ Len(grouped_flags) = 2
    /\ grouped_flags[1].severity_level = "Low"
    /\ grouped_flags[2].severity_level = "Critical"
    /\ Fragment(1)[1].title.items =
           <<(<<"Low", CATEGORIES_TO_CHECK[1]>>), (<<"Critical", CATEGORIES_TO_CHECK[2]>>)>>

IsWrapper(token) == token.k \in {"span", "endspan"}

\* C19: the highlighted text is one fragment per sentence of the mapping in
\* mapping order, one space apart, each holding the sentence text; without
\* the wrappers it is the one-space join of the sentences; an id of the
\* index that is not in the mapping changes nothing.
C19_HighlightedTextIsJoin ==
    StoryReturned =>
        /\ Len(Html) = (IF Mapping = <<>> THEN 0
                        ELSE FragStart(Len(Mapping)) + FragLen(Len(Mapping)) - 1)
        /\ \A i \in 1..Len(Mapping) :
              /\ i > 1 => Html[FragStart(i) - 1] = SP
              /\ SelectSeq(Fragment(i), LAMBDA t : ~IsWrapper(t)) = Mapping[i][2]
        /\ SelectSeq(Html, LAMBDA t : ~IsWrapper(t))
               = JoinSpace([i \in 1..Len(Mapping) |-> Mapping[i][2]])

\* the index has the key MaxId, which is the id of no sentence
C19_Witness ==
    /\ pc = "tag_returned"
    /\ doc = PlainDoc
    /\ MaxId \in DOMAIN CoverageIndex
    /\ \A i \in 1..Len(Mapping) : Mapping[i][1] # MaxId
    /\ Len(Mapping) = MaxId - 1
    /\ Fragment(MaxId - 1)[1].k = "span"
    /\ Fragment(1) = PlainSentence(1)

\* the grouped entries of validated_tags before the sort
TagsUnsorted == group_consecutive_tags(validated_tags, arg.tagged_content)

WithFirstId(entries, id) == SelectSeq(entries, LAMBDA e : SortKey(e) = id)

\* C20: the tags of tag_story are in non-decreasing order of the first id
\* of their runs, whatever the order of the classifier's candidates, and
\* entries with the same first id keep the order in which the candidates
\* and their runs produced them.
C20_TagsStableSorted ==
    pc = "tag_returned" =>
        /\ Len(result.tags) = Len(tags)
        /\ \A i \in 1..Len(tags) : result.tags[i] = FinalTag(tags[i])
        /\ \A i \in 1..(Len(tags) - 1) : SortKey(tags[i]) <= SortKey(tags[i + 1])
        /\ Len(tags) = Len(TagsUnsorted)
        /\ \A i \in 1..Len(TagsUnsorted) :
              WithFirstId(tags, SortKey(TagsUnsorted[i]))
                  = WithFirstId(TagsUnsorted, SortKey(TagsUnsorted[i]))

\* the grouped entries are out of order and two different entries have the
\* same first id
C20_Witness ==
    /\ pc = "tag_returned"
    /\ \E i \in 1..(Len(TagsUnsorted) - 1) :
          SortKey(TagsUnsorted[i]) > SortKey(TagsUnsorted[i + 1])
    /\ \E i \in 1..(Len(tags) - 1) :
          SortKey(tags[i]) = SortKey(tags[i + 1]) /\ tags[i] # tags[i + 1]

(***************************************************************************)
(* Properties of flag_story (Spec).                                        *)
(***************************************************************************)
Finished == pc \in {"returned", "raised"}

\* the candidates of the categories that returned, in CATEGORIES_TO_CHECK order
RECURSIVE CandidatesInCategoryOrder(_)
CandidatesInCategoryOrder(i) ==
    IF i > Len(CATEGORIES_TO_CHECK) THEN <<>>
    ELSE (IF fut[CATEGORIES_TO_CHECK[i]].st = "returned"
          THEN fut[CATEGORIES_TO_CHECK[i]].val ELSE <<>>)
             \o CandidatesInCategoryOrder(i + 1)

\* the grouped entries of all_flags_raw before the sort
UnsortedEntries == group_consecutive_flags(all_flags_raw, arg.tagged_content)

\* C1: whatever the order in which the category checks complete, the flags
\* of the result are the sorted grouped entries, in non-decreasing order of
\* the first tag number of their runs.
C1_FlagsSortedByFirstTag ==
    pc = "returned" =>
        /\ Len(result.flags) = Len(grouped_flags)
        /\ \A i \in 1..Len(grouped_flags) : result.flags[i] = FlagOut(grouped_flags[i])
        /\ \A i \in 1..(Len(grouped_flags) - 1) :
              SortKey(grouped_flags[i]) <= SortKey(grouped_flags[i + 1])

\* three categories contributed and the entries were collected out of order
C1_Witness ==
    /\ pc = "returned"
    /\ Len(all_flags_raw) = 3
    /\ \E i \in 1..(Len(UnsortedEntries) - 1) :
          SortKey(UnsortedEntries[i]) > SortKey(UnsortedEntries[i + 1])
    /\ Len(result.flags) = Len(UnsortedEntries)

\* C2: the entries are merged in the fixed order of CATEGORIES_TO_CHECK
\* before the stable sort, so entries with the same first tag number have
\* the same relative order for every completion order.
C2_TiesInCategoryOrder ==
    pc = "returned" =>
        grouped_flags =
            sort_by_first_tag(
                group_consecutive_flags(CandidatesInCategoryOrder(1), arg.tagged_content))

\* C3: the merge is computed only after every category check has completed
\* and been collected: at and after the merge every future is done and
\* taken, all_flags_raw holds exactly the candidates of the categories that
\* returned, and the grouped entries are those of all_flags_raw.
C3_MergeAfterAllChecks ==
    Finished =>
        /\ \A c \in Categories : Done(c) /\ c \in collected
        /\ SameElements(all_flags_raw, CandidatesInCategoryOrder(1))
        /\ pc = "returned" => SameElements(grouped_flags, UnsortedEntries)

C3_Witness ==
    /\ pc = "returned"
    /\ \E c \in Categories : fut[c].st = "raised"
    /\ Len(all_flags_raw) >= 2
    /\ Len(grouped_flags) >= 2

\* C4: when the check of one category raises or yields no candidates,
\* flag_story still returns normally with every entry of the other
\* categories.
C4_FailedCategoryIsolated ==
    (Finished /\ \E c \in Categories : fut[c].st = "raised" \/ fut[c].val = <<>>) =>
        /\ pc = "returned"
        /\ SameElements(grouped_flags,
               group_consecutive_flags(CandidatesInCategoryOrder(1), arg.tagged_content))

(***************************************************************************)
(* Properties of the response parsers and the style lookups (SpecParse).   *)
(***************************************************************************)
\* C21: for every response that is missing, malformed or unparseable (None
\* or "", text that is not JSON, JSON that is not an object, an object
\* without the key, a key whose value is not a list of objects),
\* _check_category and _identify_skills return the empty list and raise
\* nothing.
C21_MalformedResponseIsEmptyList ==
    /\ (fn = "check_category" /\ arg.kind \in MalformedKinds)
           => ret = [raised |-> FALSE, val |-> <<>>, type |-> "list"]
    /\ (fn = "identify_skills" /\ arg.kind \in MalformedKinds) => ret = <<>>

\* the candidates of a response whose skill_id is in the taxonomy
HasValidSkillId(tag) == "skill_id" \in tag.present /\ tag.skill_id \in valid_skill_ids

ValidCandidates(skill_tags) == SelectSeq(skill_tags, HasValidSkillId)

\* confidence c of the classifier (0.0 when missing) brought into [0, 1]
ClampedFrom(tag, confidence) ==
    LET c == IF "confidence" \in tag.present THEN tag.confidence ELSE 0
    IN /\ confidence \in 0..100
       /\ (c \in 0..100) => confidence = c
       /\ (c > 100) => confidence = 100
       /\ (c < 0) => confidence = 0

\* every valid candidate carries a confidence that float() converts (or none)
ConfidencesConvert(skill_tags) ==
    \A i \in 1..Len(skill_tags) :
        (HasValidSkillId(skill_tags[i]) /\ "confidence" \in skill_tags[i].present)
            => ~float_raises(skill_tags[i].confidence)

\* every skill_id of the response is a string or is missing
IdsHashable(skill_tags) ==
    \A i \in 1..Len(skill_tags) :
        "skill_id" \in skill_tags[i].present => skill_tags[i].skill_id # UnhashableSkillId

\* every returned candidate has a skill_id of the taxonomy and a confidence
\* within [0, 1]
ReturnedAreValid ==
    \A i \in 1..Len(ret) : HasValidSkillId(ret[i]) /\ ret[i].confidence \in 0..100

\* the returned candidates are the candidates with a valid skill_id, in the
\* classifier's order, each with its confidence clamped and nothing else
\* changed
ReturnedAreTheValid ==
    LET valid == ValidCandidates(arg.skill_tags)
    IN /\ Len(ret) = Len(valid)
       /\ \A i \in 1..Len(ret) :
              /\ ret[i].skill_id = valid[i].skill_id
              /\ ret[i].skill_name = valid[i].skill_name
              /\ ret[i].rationale = valid[i].rationale
              /\ ret[i].tag_numbers = valid[i].tag_numbers
              /\ ClampedFrom(valid[i], ret[i].confidence)

\* C30: every candidate returned by _identify_skills has a skill_id of the
\* taxonomy and a confidence within [0, 1]; and, for a response whose valid
\* candidates carry confidences that are numbers, the returned candidates
\* are the candidates with a valid skill_id, in the classifier's order,
\* each with its confidence clamped and nothing else changed: a candidate
\* with an unknown skill_id, whatever that skill_id is, is dropped alone and
\* removes no valid candidate.
C30_ValidatedCandidates ==
    (fn = "identify_skills" /\ arg.kind = "ok") =>
        /\ ReturnedAreValid
        /\ ConfidencesConvert(arg.skill_tags) => ReturnedAreTheValid

\* what does hold: the same, for the responses whose skill_ids are strings
\* or missing
ValidatedWhenIdsHashable ==
    (fn = "identify_skills" /\ arg.kind = "ok") =>
        /\ ReturnedAreValid
        /\ (ConfidencesConvert(arg.skill_tags) /\ IdsHashable(arg.skill_tags))
               => ReturnedAreTheValid

\* a valid candidate with confidence 1.5 after a candidate whose skill_id is
\* a string outside the taxonomy: one candidate is returned, with
\* confidence 1
DroppedAlone ==
    /\ fn = "identify_skills"
    /\ arg.kind = "ok"
    /\ Len(arg.skill_tags) = 2
    /\ ~HasValidSkillId(arg.skill_tags[1])
    /\ HasValidSkillId(arg.skill_tags[2])
    /\ "confidence" \in arg.skill_tags[2].present
    /\ arg.skill_tags[2].confidence = 150
    /\ Len(ret) = 1
    /\ ret[1].confidence = 100

\* the fixed style of each severity level and of each skill category
LevelStyle(severity) ==
    CASE severity = "Critical" -> [css_class |-> "flag-critical", color |-> "#d32f2f"]
      [] severity = "High" -> [css_class |-> "flag-high", color |-> "#ff6b6b"]
      [] severity = "Medium" -> [css_class |-> "flag-medium", color |-> "#ffa726"]
      [] severity = "Low" -> [css_class |-> "flag-low", color |-> "#fff59d"]

SkillCategories == {"Decoding", "Comprehension", "Vocabulary", "Knowledge", "Fluency"}

CategoryStyle(category) ==
    CASE category = "Decoding" -> [css_class |-> "skill-decoding", color |-> "#3498db"]
      [] category = "Comprehension" -> [css_class |-> "skill-comprehension", color |-> "#27ae60"]
      [] category = "Vocabulary" -> [css_class |-> "skill-vocabulary", color |-> "#e74c3c"]
      [] category = "Knowledge" -> [css_class |-> "skill-knowledge", color |-> "#f39c12"]
      [] category = "Fluency" -> [css_class |-> "skill-fluency", color |-> "#9b59b6"]

\* the category named by the second dash-separated part of a skill id: the
\* text that follows the first dash of the id, when it is a category code
CategoryNamedBy(skill_id) ==
    LET dashes == {i \in 1..Len(skill_id) : skill_id[i] = "-"}
        first == CHOOSE i \in dashes : \A j \in dashes : i <= j
    IN IF dashes = {} THEN "Unknown"
       ELSE IF first = Len(skill_id) THEN "Unknown"
       ELSE CASE skill_id[first + 1] = "COMP" -> "Comprehension"
              [] skill_id[first + 1] = "DEC" -> "Decoding"
              [] skill_id[first + 1] = "VOCAB" -> "Vocabulary"
              [] skill_id[first + 1] = "KNOW" -> "Knowledge"
              [] skill_id[first + 1] = "FLUENCY" -> "Fluency"
              [] OTHER -> "Unknown"

StyleOfRet == [css_class |-> ret.css_class, color |-> ret.color]

NeutralFlagStyle == [css_class |-> "flag-multiple", color |-> "#9e9e9e"]

NeutralSkillStyle == [css_class |-> "skill-multiple", color |-> "#9e9e9e"]

\* each level and each category has its fixed style; a skill id whose
\* category code is missing or unknown gets the entry 'Unknown', which is
\* the style of no category and not the neutral style
StyleTables ==
    /\ (fn = "severity_style" /\ arg.severity \in SeverityLevels)
           => StyleOfRet = LevelStyle(arg.severity)
    /\ fn = "category_style" =>
           /\ ret.category = CategoryNamedBy(arg.skill_id)
           /\ ret.category \in SkillCategories => StyleOfRet = CategoryStyle(ret.category)
           /\ ret.category = "Unknown" =>
                  /\ StyleOfRet = [css_class |-> "skill-unknown", color |-> "#95a5a6"]
                  /\ \A c \in SkillCategories : StyleOfRet # CategoryStyle(c)
                  /\ StyleOfRet # NeutralSkillStyle

\* C24, as stated: both style policies are total, each level and category
\* has its fixed style, a label outside them gets the fallback, and the
\* fallback style of either policy is the style of no known label and not
\* the neutral style.
C24_FallbackDistinct ==
    /\ StyleTables
    /\ (fn = "severity_style" /\ arg.severity \notin SeverityLevels) =>
           /\ \A s \in SeverityLevels : StyleOfRet # LevelStyle(s)
           /\ StyleOfRet # NeutralFlagStyle

\* C24, amended: the severity policy has no entry of its own for an unknown
\* severity; it falls back to the style of Low, which differs from the
\* styles of Critical, High and Medium and from the neutral style.
C24_SeverityFallsBackToLow ==
    /\ StyleTables
    /\ (fn = "severity_style" /\ arg.severity \notin SeverityLevels) =>
           /\ StyleOfRet = LevelStyle("Low")
           /\ \A s \in SeverityLevels \ {"Low"} : StyleOfRet # LevelStyle(s)
           /\ StyleOfRet # NeutralFlagStyle

\* a severity outside the four levels has been styled
C24_Witness ==
    /\ fn = "severity_style"
    /\ arg.severity = "Extreme"
    /\ ret = [css_class |-> "flag-low", color |-> "#fff59d"]

(***************************************************************************)
(* Properties of flag_all_stories and tag_all_stories (SpecAll).           *)
(***************************************************************************)
AllReturned == fn \in {"flag_all_stories", "tag_all_stories"} /\ pc = "returned"

\* C22: a story whose task raises does not abort the others: the call
\* returns; the result of every story whose task returned is in the list
\* unchanged; the failed story has an error record with its story id and
\* the error text (flagging: flag_count 0 and has_critical False; tagging:
\* no skill tags).
C22_FailedStoryIsolated ==
    AllReturned =>
        \A k \in 1..NumStories :
            LET s == arg.story_ids[k]
            IN /\ fut[s].st = "returned" => result[k] = fut[s].val
               /\ fut[s].st = "raised" =>
                      /\ result[k].story_id = s
                      /\ result[k].error = fut[s].val.error
                      /\ fn = "flag_all_stories" =>
                             result[k].flag_count = 0 /\ result[k].has_critical = FALSE
                      /\ fn = "tag_all_stories" => result[k].skill_tags = <<>>

\* the call has returned although a story failed and another did not
C22_Witness ==
    /\ AllReturned
    /\ \E s, t \in StoryIds : fut[s].st = "raised" /\ fut[t].st = "returned"

\* C27: the list returned has one result per entry of story_ids, and the
\* result at position k has the story id at position k, in whatever order
\* the tasks completed.
C27_ResultsInListOrder ==
    AllReturned =>
        /\ Len(result) = Len(arg.story_ids)
        /\ \A k \in 1..Len(result) : result[k].story_id = arg.story_ids[k]

\* the call has returned and the tasks were not collected in list order
C27_Witness ==
    /\ AllReturned
    /\ Len(result) = NumStories
    /\ \E k \in 1..NumStories : results[k].key # arg.story_ids[k]

(***************************************************************************)
(* Fatal conditions and termination of flag_story (Spec, FairSpec).        *)
(***************************************************************************)
\* C23: a story id that is not in the store is the only fatal condition of
\* flag_story: for such an id ValueError is propagated before any
\* classifier call is submitted and no result is built; for an id of the
\* store, whatever the classifiers give, flag_story does not raise.
C23_OnlyMissingStoryIsFatal ==
    fn = "flag_story" =>
        /\ arg.story_id \notin StoryIds =>
               /\ pc \in {"load", "not_found"}
               /\ \A c \in Categories : fut[c].st = "none"
               /\ all_flags_raw = <<>>
               /\ pc = "not_found" => result = [error |-> "ValueError"]
        /\ arg.story_id \in StoryIds => pc \notin {"not_found", "raised"}

\* C28: when every classifier call terminates and the threads are scheduled
\* fairly, flag_story, once the story is loaded, eventually returns a
\* result, for every pool size from 1.
C28_FlagStoryEventuallyReturns ==
    (fn = "flag_story" /\ pc = "submit") ~> (pc = "returned")

\* flag_story, once the story is loaded, eventually returns or raises
FlagStoryTerminates ==
    (fn = "flag_story" /\ pc = "submit") ~> (pc \in {"returned", "raised"})

\* flag_all_stories and tag_all_stories eventually return the full list
AllStoriesTerminate ==
    (pc = "submit") ~> (AllReturned /\ Len(result) = NumStories)

(***************************************************************************)
(* Defaults and summary fields of the result of flag_story (SpecStory).    *)
(***************************************************************************)
FlagStoryReturned == fn = "flag_story" /\ pc = "returned"

\* the value an output field takes from a candidate: the candidate's own
\* value when it carries the key, the fixed default otherwise
FieldOr(candidate, key, default) ==
    IF key \in candidate.present THEN candidate[key] ELSE default

\* the flag is an entry of this candidate, with the candidate's values or
\* the defaults 0.5, 'Unknown' and 'Low'
FlagComesFrom(flag, entry, candidate) ==
    /\ Range(entry.tag_numbers) \subseteq Range(CandidateSpan(candidate).v)
    /\ flag.confidence = FieldOr(candidate, "confidence", 50)
    /\ flag.issue_type = FieldOr(candidate, "issue_type", "Unknown")
    /\ flag.severity = FieldOr(candidate, "severity_level", "Low")

CandidatesWithout(key) ==
    {j \in 1..Len(all_flags_raw) : key \notin all_flags_raw[j].present}

\* C25: in the result of flag_story every flag is an entry of one of the
\* candidates and carries that candidate's confidence, issue_type and
\* severity_level where the candidate has them, and 0.5, 'Unknown' and
\* 'Low' where it has not; when no candidate has a confidence, every flag
\* has 0.5, and when every candidate has one, no flag has another value.
C25_DefaultsReachOutput ==
    FlagStoryReturned =>
        /\ \A i \in 1..Len(result.flags) :
              \E j \in 1..Len(all_flags_raw) :
                  FlagComesFrom(result.flags[i], grouped_flags[i], all_flags_raw[j])
        /\ CandidatesWithout("confidence") = 1..Len(all_flags_raw) =>
              \A i \in 1..Len(result.flags) : result.flags[i].confidence = 50
        /\ CandidatesWithout("confidence") = {} =>
              \A i \in 1..Len(result.flags) :
                  \E j \in 1..Len(all_flags_raw) :
                      result.flags[i].confidence = all_flags_raw[j].confidence

\* one candidate without confidence and with the span [3, 1] gives two
\* flags, both with confidence 0.5 and with the candidate's own severity
C25_Witness ==
    /\ FlagStoryReturned
    /\ Len(all_flags_raw) = 1
    /\ "confidence" \notin all_flags_raw[1].present
    /\ Len(result.flags) = 2
    /\ \A i \in 1..2 : result.flags[i].confidence = 50
                         /\ result.flags[i].severity = "Critical"

\* C26: in every result of flag_story flag_count is the length of 'flags',
\* has_critical is true exactly when some flag has severity 'Critical',
\* and 'flags' has one entry per entry of the merged list, in its order.
C26_SummaryFields ==
    FlagStoryReturned =>
        /\ result.flag_count = Len(result.flags)
        /\ result.has_critical = (\E i \in 1..Len(result.flags) :
                                     result.flags[i].severity = "Critical")
        /\ Len(result.flags) = Len(grouped_flags)
        /\ \A i \in 1..Len(grouped_flags) :
              /\ result.flags[i].severity = grouped_flags[i].severity_level
              /\ result.flags[i].issue_type = grouped_flags[i].issue_type
              /\ result.flags[i].text_evidence = grouped_flags[i].text_evidence
              /\ result.flags[i].confidence = grouped_flags[i].confidence

\* two flags, the second of them the only critical one
C26_Witness ==
    /\ FlagStoryReturned
    /\ result.flag_count = 2
    /\ result.flags[1].severity = "Low"
    /\ result.flags[2].severity = "Critical"
    /\ result.has_critical

(***************************************************************************)
(* Runs of one candidate (SpecSpan).                                       *)
(***************************************************************************)
\* C29: among the entries derived from one candidate every sentence id
\* belongs to at most one run, for every span (any order, repeated ids
\* included): no sentence is covered by two entries of the same candidate.
C29_IdInAtMostOneRun ==
    (fn \in {"group_flags", "group_tags"} /\ ~ret.raised) =>
        \A id \in 1..MaxId : Len(CoveringEntries(ret.val, id)) <= 1

====
